---- MODULE Spec2Model ----
(***************************************************************************)
(* A model of the reminder plugin: the recurrence compiler / job scheduler *)
(* (core/scheduler.py), the command layer (core/reminder.py), the          *)
(* persistence layer (core/utils.py, core/database.py) and the calendar    *)
(* service (core/utils.py, HolidayManager).                                *)
(*                                                                         *)
(* Representation.  A Python str that the code splits or searches (a       *)
(* session key, a user id, a reminder text) is a sequence of tokens, each  *)
(* token a TLA+ string holding no delimiter character; the delimiters      *)
(* ":", "_" and "@chatroom" are tokens of their own.  A "YYYY-MM-DD HH:MM" *)
(* string is the tuple of its five zero-padded fields.  A datetime object  *)
(* is a record of its numeric fields.  Python's None is NoneVal.           *)
(***************************************************************************)
EXTENDS Integers, Sequences, FiniteSets, TLC

\* TLC keeps the fields of a record in the order in which their names first
\* occur in the module.  The names are first written here, and every record
\* of the model lists its fields in this order: a record is then in normal
\* form from its construction on, and no worker reorders a record that
\* another worker reads.
FieldOrder ==
    [op |-> 1, status |-> 2, raised |-> 3, ok |-> 4, fault |-> 5,
     missing |-> 6, kind |-> 7, fmt |-> 8, s |-> 9, am_pm |-> 10,
     value |-> 11, id |-> 12, func |-> 13, trigger |-> 14, at |-> 15,
     run |-> 16, job |-> 17, origin |-> 18, user |-> 19, name |-> 20,
     session |-> 21, session_id |-> 22, msg_origin |-> 23, key |-> 24,
     rec |-> 25, items |-> 26, reminds |-> 27, removed |-> 28,
     reminder |-> 29, n |-> 30, sent |-> 31, content |-> 32, text |-> 33,
     date_time |-> 34, user_name |-> 35, repeat_type |-> 36,
     holiday_type |-> 37, creator_id |-> 38, creator_name |-> 39,
     is_task |-> 40, dt |-> 41, run_date |-> 42, year |-> 43, month |-> 44,
     day |-> 45, day_of_week |-> 46, hour |-> 47, minute |-> 48,
     job_id |-> 49, job_removed |-> 50, held |-> 51, jobs |-> 52,
     data |-> 53, table |-> 54, hd |-> 55, file |-> 56, bak |-> 57,
     rows |-> 58, serial |-> 59, saved |-> 60, fetched |-> 61,
     executed |-> 62, datetime |-> 63, repeat |-> 64, input |-> 65]

VARIABLES
    clock,         \* index into Timeline: the host's wall clock (datetime.now())
    backend,       \* "json" when postgres_url is empty, "postgres" otherwise
    jsonFile,      \* content of the flat-file store (data_file)
    pgRows,        \* rows of the table reminders, in insertion order
    pgSerial,      \* last value handed out by the SERIAL column id
    sysData,       \* ReminderSystem.reminder_data
    schedData,     \* ReminderScheduler.reminder_data
    jobs,          \* the jobs held by the global AsyncIOScheduler
    constructed,   \* number of ReminderScheduler constructions so far
    startedAt,    \* clock value at the latest construction (0: none yet)
    jsonBak,       \* data_file.bak, the backup load_json_data leaves of a corrupt file
    all_user_reminds, \* the configured all-user reminders
    unique_session,   \* the configured per-user isolation flag
    holidayFile,   \* holiday_cache.json
    holidayApi,    \* what the external calendar source serves for each year
    holiday_data,  \* HolidayManager.holiday_data, the per-year cache
    fired,         \* ids of the jobs with no run left at the current instant
    outbox,        \* calls of send_message the delivery collaborator got at the current instant
    reply,         \* outcome of the latest operation, as its caller sees it
    handlers,      \* position of the add_remind and the remove_reminds coroutine of a race
    registry       \* sys._GLOBAL_SCHEDULER_REGISTRY['scheduler']: 0 is None, k the k-th AsyncIOScheduler created

vars == <<clock, backend, jsonFile, jsonBak, pgRows, pgSerial, sysData, schedData, jobs,
          constructed, startedAt, registry,
          all_user_reminds, unique_session, holidayFile, holidayApi, holiday_data, fired, outbox, reply,
          handlers>>

----------------------------------------------------------------------------
(* Python values *)

NoneVal == "<None>"

\* truth value of a str or None
Truthy(v) == v # NoneVal /\ v # ""

\* None where a token sequence is expected
NoneSeq == <<NoneVal>>

\* truth value of a token sequence or None
TruthySeq(v) == v # <<>> /\ v # NoneSeq

----------------------------------------------------------------------------
(* str operations on token sequences *)

RECURSIVE Flat(_)
Flat(s) == IF s = <<>> THEN "" ELSE Head(s) \o Flat(Tail(s))

StartsWith(s, p) == Len(p) <= Len(s) /\ SubSeq(s, 1, Len(p)) = p

EndsWith(s, p) == Len(p) <= Len(s) /\ SubSeq(s, Len(s) - Len(p) + 1, Len(s)) = p

Contains(s, p) ==
    \E i \in 1..(Len(s) - Len(p) + 1) : SubSeq(s, i, i + Len(p) - 1) = p

\* positions of the token t in s
Positions(s, t) == {i \in 1..Len(s) : s[i] = t}

Max(S) == CHOOSE m \in S : \A n \in S : n <= m

Min(S) == CHOOSE m \in S : \A n \in S : m <= n

\* s.rsplit(t, 1): <<s>> when t does not occur, else <<before, after>> the last t
RSplit1(s, t) ==
    IF Positions(s, t) = {} THEN <<s>>
    ELSE LET i == Max(Positions(s, t))
         IN  <<SubSeq(s, 1, i - 1), SubSeq(s, i + 1, Len(s))>>

----------------------------------------------------------------------------
(* datetime: the proleptic Gregorian calendar of Python's datetime module *)

IsLeap(y) == y % 4 = 0 /\ (y % 100 # 0 \/ y % 400 = 0)

DaysInMonth(y, m) ==
    IF m = 2 THEN (IF IsLeap(y) THEN 29 ELSE 28)
    ELSE IF m \in {4, 6, 9, 11} THEN 30 ELSE 31

RECURSIVE DaysBeforeMonth(_, _)
DaysBeforeMonth(y, m) ==
    IF m = 1 THEN 0 ELSE DaysBeforeMonth(y, m - 1) + DaysInMonth(y, m - 1)

DaysBeforeYear(y) ==
    (y - 1) * 365 + ((y - 1) \div 4) - ((y - 1) \div 100) + ((y - 1) \div 400)

\* date.toordinal(): 0001-01-01 is day 1
Ymd2Ord(y, m, d) == DaysBeforeYear(y) + DaysBeforeMonth(y, m) + d

\* the year day n of the calendar falls in
YearOfOrd(n) ==
    CHOOSE yy \in ((n \div 366) - 1)..((n \div 365) + 1) :
        yy >= 1 /\ DaysBeforeYear(yy) < n /\ n <= DaysBeforeYear(yy + 1)

\* the month day r of year y falls in
MonthOfDay(y, r) ==
    CHOOSE mm \in 1..12 :
        DaysBeforeMonth(y, mm) < r /\ r <= DaysBeforeMonth(y, mm) + DaysInMonth(y, mm)

\* the date of day r of year y, which falls in month m
DateOfDay(y, r, m) == [year |-> y, month |-> m, day |-> r - DaysBeforeMonth(y, m)]

\* the date of day r of year y
DayOfYear(y, r) == DateOfDay(y, r, MonthOfDay(y, r))

\* the date of day n of the calendar, which falls in year y
DateInYear(n, y) == DayOfYear(y, n - DaysBeforeYear(y))

\* date.fromordinal()
Ord2Ymd(n) == DateInYear(n, YearOfOrd(n))

DT(y, m, d, hh, mi) == [year |-> y, month |-> m, day |-> d, hour |-> hh, minute |-> mi]

\* datetime.weekday(): Monday is 0, Sunday is 6
Weekday(dt) == (Ymd2Ord(dt.year, dt.month, dt.day) + 6) % 7

\* dt.replace(year, month, day) with those of the date d
WithDate(dt, d) == [dt EXCEPT !.year = d.year, !.month = d.month, !.day = d.day]

\* dt + datetime.timedelta(days=k)
AddDays(dt, k) == WithDate(dt, Ord2Ymd(Ymd2Ord(dt.year, dt.month, dt.day) + k))

\* minutes since 0001-01-01 00:00: the order of datetime comparison
Stamp(dt) == (Ymd2Ord(dt.year, dt.month, dt.day) * 24 + dt.hour) * 60 + dt.minute

DtLeq(a, b) == Stamp(a) <= Stamp(b)

----------------------------------------------------------------------------
(* "%Y-%m-%d %H:%M" *)

Pad2(n) == IF n < 10 THEN "0" \o ToString(n) ELSE ToString(n)

Pad4(n) ==
    IF n < 10 THEN "000" \o ToString(n)
    ELSE IF n < 100 THEN "00" \o ToString(n)
    ELSE IF n < 1000 THEN "0" \o ToString(n) ELSE ToString(n)

\* dt.strftime("%Y-%m-%d %H:%M")
Strftime(dt) == <<Pad4(dt.year), Pad2(dt.month), Pad2(dt.day), Pad2(dt.hour), Pad2(dt.minute)>>

\* the characters of a formatted date_time, for use inside a larger string
DateTimeText(s) == s[1] \o "-" \o s[2] \o "-" \o s[3] \o " " \o s[4] \o ":" \o s[5]

\* the years a date_time of the model may name
Years == 2023..2026

\* the number a field of one or two digits reads as
NumOf ==
    [tok \in {Pad2(n) : n \in 0..59} \cup {ToString(n) : n \in 0..59} |->
        CHOOSE n \in 0..59 : tok \in {Pad2(n), ToString(n)}]

\* the number a %Y field of four digits reads as
YearOf == [tok \in {Pad4(y) : y \in Years} |-> CHOOSE y \in Years : Pad4(y) = tok]

\* n when it lies in lo..hi, else -1
InRange(n, lo, hi) == IF n >= lo /\ n <= hi THEN n ELSE -1

\* a %m, %d, %H or %M field; -1 when strptime rejects it
ParseField(tok, lo, hi) == InRange(IF tok \in DOMAIN NumOf THEN NumOf[tok] ELSE -1, lo, hi)

\* a %Y field; -1 when strptime rejects it
ParseYear(tok) == IF tok \in DOMAIN YearOf THEN YearOf[tok] ELSE -1

\* the datetime of the five fields read; -1 stands for a field strptime rejects
StrptimeFields(y, m, d, hh, mi) ==
    IF y < 0 \/ m < 0 \/ d < 0 \/ hh < 0 \/ mi < 0 THEN [ok |-> FALSE]
    ELSE IF d > DaysInMonth(y, m) THEN [ok |-> FALSE]
    ELSE [ok |-> TRUE, dt |-> DT(y, m, d, hh, mi)]

\* datetime.datetime.strptime(s, "%Y-%m-%d %H:%M"); ok = FALSE models ValueError
Strptime(s) ==
    StrptimeFields(ParseYear(s[1]), ParseField(s[2], 1, 12), ParseField(s[3], 1, 31),
                   ParseField(s[4], 0, 23), ParseField(s[5], 0, 59))

----------------------------------------------------------------------------
(* core/utils.py: parse_datetime, is_outdated *)

\* the week names parse_datetime accepts (after strip().lower())
ParseWeekMap ==
    [w \in {"mon", "monday", "tue", "tuesday", "wed", "wednesday", "thu", "thursday",
            "fri", "friday", "sat", "saturday", "sun", "sunday"} |->
        CASE w \in {"mon", "monday"}    -> 0
          [] w \in {"tue", "tuesday"}   -> 1
          [] w \in {"wed", "wednesday"} -> 2
          [] w \in {"thu", "thursday"}  -> 3
          [] w \in {"fri", "friday"}    -> 4
          [] w \in {"sat", "saturday"}  -> 5
          [] OTHER                      -> 6]

\* the hour and minute of a strptime result
HourMinuteOf(p) ==
    IF p.ok THEN [ok |-> TRUE, hour |-> p.dt.hour, minute |-> p.dt.minute] ELSE [ok |-> FALSE]

\* step 3 of parse_datetime: the hour adjusted for the am/pm word
AdjustHour(am_pm, hour) ==
    IF am_pm \in {"afternoon", "evening"} /\ 1 <= hour /\ hour < 12 THEN hour + 12
    ELSE IF am_pm = "smallhours" /\ hour \in {12, 24} THEN 0
    ELSE hour

\* Steps 2 and 3 of parse_datetime: the hour and minute a time input names.
\* An input is the str the caller passed, by the branch that recognises it:
\*   [fmt |-> "digits", hour, minute]          "0820", "820"
\*   [fmt |-> "full", s]                       "YYYY-MM-DD HH:MM" (len 16)
\*   [fmt |-> "regex", am_pm, hour, minute]    "8:20", "8点20", "下午3点"
\*   [fmt |-> "nomatch"]                       anything else
HourMinute(in) ==
    CASE in.fmt = "digits" -> [ok |-> TRUE, hour |-> in.hour, minute |-> in.minute]
      [] in.fmt = "full"   -> HourMinuteOf(Strptime(in.s))
      [] in.fmt = "regex"  -> [ok |-> TRUE, hour |-> AdjustHour(in.am_pm, in.hour),
                              minute |-> in.minute]
      [] OTHER -> [ok |-> FALSE]

\* step 6 of parse_datetime: dt moved ahead days to the weekday asked for
NextWeekday(dt, ahead, today) ==
    [ok |-> TRUE,
     value |-> Strftime(AddDays(dt, IF ahead < 0 \/ (ahead = 0 /\ DtLeq(dt, today))
                                        THEN ahead + 7 ELSE ahead))]

\* steps 6 to 8 without the move to the next day or week
FutureDateSameDay(dt, week, today) ==
    IF Truthy(week) /\ week \notin DOMAIN ParseWeekMap THEN [ok |-> FALSE]
    ELSE [ok |-> TRUE, value |-> Strftime(dt)]

\* steps 6 to 8 of parse_datetime on dt, today at the hour and minute read
FutureDate(dt, week, today) ==
    IF Truthy(week) THEN
        IF week \notin DOMAIN ParseWeekMap THEN [ok |-> FALSE]
        ELSE NextWeekday(dt, ParseWeekMap[week] - Weekday(dt), today)
    ELSE IF DtLeq(dt, today) THEN [ok |-> TRUE, value |-> Strftime(AddDays(dt, 1))]
    ELSE [ok |-> TRUE, value |-> Strftime(dt)]

\* steps 4 and 5 of parse_datetime on the hour and minute read
ParsedTime(hm, week, today) ==
    IF ~hm.ok THEN [ok |-> FALSE]
    ELSE IF ~(0 <= hm.hour /\ hm.hour <= 23 /\ 0 <= hm.minute /\ hm.minute <= 59)
        THEN [ok |-> FALSE]
    ELSE FutureDate([today EXCEPT !.hour = hm.hour, !.minute = hm.minute], week, today)

\* a parse_datetime that raises nothing: what it cannot read is 09:00 today
ParseLenient(in, week, today) ==
    LET p == ParsedTime(HourMinute(in), week, today)
    IN  IF p.ok THEN p ELSE [ok |-> TRUE, value |-> Strftime([today EXCEPT !.hour = 9, !.minute = 0])]

\* parse_datetime(datetime_str, week) evaluated when datetime.now() is today.
\* ok = FALSE models the ValueError it raises.
parse_datetime(in, week, today) == ParsedTime(HourMinute(in), week, today)

HasKey(r, k) == k \in DOMAIN r

\* reminder_time <= current_time; False on the ValueError of strptime
ExpiredAt(p, today) == IF p.ok THEN DtLeq(p.dt, today) ELSE FALSE

\* is_outdated(reminder) evaluated when datetime.now() is today
is_outdated(reminder, today) ==
    IF HasKey(reminder, "date_time") /\ TruthySeq(reminder.date_time)
        THEN ExpiredAt(Strptime(reminder.date_time), today)
    ELSE FALSE

----------------------------------------------------------------------------
(* Python dict with str keys, in insertion order: a sequence of [key, items] *)

EmptyDict == <<>>

DictKeys(d) == [i \in 1..Len(d) |-> d[i].key]

DictHas(d, k) == \E i \in 1..Len(d) : d[i].key = k

DictGet(d, k) == d[CHOOSE i \in 1..Len(d) : d[i].key = k].items

\* d[k] = v
DictSet(d, k, v) ==
    IF DictHas(d, k) THEN [i \in 1..Len(d) |-> IF d[i].key = k THEN [key |-> k, items |-> v] ELSE d[i]]
    ELSE Append(d, [key |-> k, items |-> v])

\* del d[k]
DictDel(d, k) == SelectSeq(d, LAMBDA e : e.key # k)

\* every record of the store, with the key it is stored under
AllRecords(d) ==
    UNION {{[key |-> d[i].key, rec |-> d[i].items[j]] : j \in 1..Len(d[i].items)} : i \in 1..Len(d)}

\* r.get(k) of a str field: None when the key is missing
Get(r, k) == IF k \in DOMAIN r THEN r[k] ELSE NoneVal

\* r.get(k, default)
GetOr(r, k, default) == IF k \in DOMAIN r THEN r[k] ELSE default

----------------------------------------------------------------------------
(* core/utils.py: the flat-file backend *)

\* The file is [kind |-> "dict", data |-> d] when it holds a JSON object,
\* [kind |-> "missing"] when it does not exist or is empty,
\* [kind |-> "garbage", data |-> ...] when json.loads raises on it,
\* [kind |-> "nondict", data |-> ...] when it holds JSON that is no object,
\* [kind |-> "unreadable", data |-> ...] when open() or read() raises on it.
\* json.dump of one value of a record: None is null, a bool true or false, an
\* int a number, a str a string
JsonValue(k, v) ==
    IF k = "is_task" THEN [kind |-> IF v THEN "true" ELSE "false"]
    ELSE IF k = "id" THEN [kind |-> "number", value |-> v]
    ELSE IF k \in {"repeat_type", "holiday_type"}
        THEN (IF v = NoneVal THEN [kind |-> "null"] ELSE [kind |-> "string", value |-> v])
    ELSE IF v = NoneSeq THEN [kind |-> "null"]
    ELSE [kind |-> "string", value |-> v]

\* json.loads of one value of a record
PyValue(k, j) ==
    CASE j.kind = "true"  -> TRUE
      [] j.kind = "false" -> FALSE
      [] j.kind = "null"  -> IF k \in {"repeat_type", "holiday_type"} THEN NoneVal ELSE NoneSeq
      [] OTHER            -> j.value

\* json.dump(reminder_data): an object whose members, in the order of the
\* dict, are arrays of objects
JsonDumps(d) ==
    [i \in DOMAIN d |->
        [key |-> d[i].key,
         items |-> [n \in DOMAIN d[i].items |->
                       [k \in DOMAIN d[i].items[n] |-> JsonValue(k, d[i].items[n][k])]]]]

\* json.loads(content) of an object json.dump wrote
JsonLoads(t) ==
    [i \in DOMAIN t |->
        [key |-> t[i].key,
         items |-> [n \in DOMAIN t[i].items |->
                       [k \in DOMAIN t[i].items[n] |-> PyValue(k, t[i].items[n][k])]]]]

JsonOf(d) == [kind |-> "dict", data |-> JsonDumps(d)]

\* load_json_data(data_file): the dict returned, the file and the backup left behind
load_json_data(file, bak) ==
    CASE file.kind = "dict"    -> [data |-> JsonLoads(file.data), file |-> file, bak |-> bak]
      [] file.kind = "missing" -> [data |-> EmptyDict, file |-> JsonOf(EmptyDict), bak |-> bak]
      [] file.kind \in {"nondict", "unreadable"}
                               -> [data |-> EmptyDict, file |-> file, bak |-> bak]
      [] OTHER                 -> [data |-> EmptyDict, file |-> JsonOf(EmptyDict), bak |-> file]

\* is_one_time(r), the local function of async_save_reminder_data
\* ("no-repeat" stands for the Chinese literal of the source)
is_one_time(r) == Get(r, "repeat_type") \in {NoneVal, "none", "no-repeat"}

\* the list comprehension that keeps every record
KeepAll(r, today) == TRUE

\* the list comprehension of async_save_reminder_data
KeepOnSave(r, today) ==
    /\ HasKey(r, "date_time")
    /\ TruthySeq(r.date_time)
    /\ ~(is_one_time(r) /\ is_outdated(r, today))

\* the store with the records kept of one key in front of the rest: a key
\* whose list came out empty is deleted
PrunedKey(key, kept, rest) ==
    IF kept = <<>> THEN rest ELSE <<[key |-> key, items |-> kept]>> \o rest

\* the pruning loop of async_save_reminder_data; it rewrites the caller's dict
RECURSIVE PruneStore(_, _)
PruneStore(d, today) ==
    IF d = <<>> THEN <<>>
    ELSE PrunedKey(Head(d).key, SelectSeq(Head(d).items, LAMBDA r : KeepOnSave(r, today)),
                   PruneStore(Tail(d), today))

\* json.dump of the pruned dict; io = FALSE: open() raises
WritePruned(file, pruned, io) ==
    IF io THEN [ok |-> TRUE, data |-> pruned, file |-> JsonOf(pruned)]
    ELSE [ok |-> FALSE, data |-> pruned, file |-> file]

\* the flat-file branch of async_save_reminder_data
JsonSave(file, d, today, io) == WritePruned(file, PruneStore(d, today), io)

----------------------------------------------------------------------------
(* core/database.py: the relational backend *)

\* the row INSERTed for a reminder of session_id
RowOf(session_id, r, id) ==
    [id |-> id, session_id |-> session_id, text |-> r.text,
     date_time |-> Strptime(r.date_time).dt,
     user_name |-> GetOr(r, "user_name", NoneSeq), repeat_type |-> Get(r, "repeat_type"),
     holiday_type |-> Get(r, "holiday_type"), creator_id |-> GetOr(r, "creator_id", NoneSeq),
     creator_name |-> GetOr(r, "creator_name", NoneSeq),
     is_task |-> IF HasKey(r, "is_task") THEN r.is_task ELSE FALSE]

\* the reminders save_reminder_data inserts, in order: those it does not skip
Insertable(d) ==
    LET RECURSIVE Walk(_)
        Walk(dd) ==
            IF dd = <<>> THEN <<>>
            ELSE [i \in 1..Len(Head(dd).items) |->
                     [key |-> Head(dd).key, rec |-> Head(dd).items[i]]] \o Walk(Tail(dd))
    IN  SelectSeq(Walk(d), LAMBDA e :
            /\ HasKey(e.rec, "date_time")
            /\ TruthySeq(e.rec.date_time)
            /\ Strptime(e.rec.date_time).ok)

\* the DELETE and the INSERTs of save_reminder_data; db = FALSE: the
\* transaction raises and is rolled back
PgInsert(rows, serial, ins, db) ==
    IF ~db THEN [ok |-> FALSE, rows |-> rows, serial |-> serial]
    ELSE [ok |-> TRUE,
          rows |-> [i \in 1..Len(ins) |-> RowOf(ins[i].key, ins[i].rec, serial + i)],
          serial |-> serial + Len(ins)]

\* PostgresManager.save_reminder_data(reminder_data)
PgSave(rows, serial, d, db) == PgInsert(rows, serial, Insertable(d), db)

\* SELECT * FROM reminders ORDER BY date_time (rows of equal date_time in
\* insertion order)
RECURSIVE OrderByDateTime(_)
OrderByDateTime(rows) ==
    IF rows = <<>> THEN <<>>
    ELSE LET first == Min({i \in 1..Len(rows) :
                              \A j \in 1..Len(rows) : Stamp(rows[i].date_time) <= Stamp(rows[j].date_time)})
         IN  <<rows[first]>> \o
             OrderByDateTime(SubSeq(rows, 1, first - 1) \o SubSeq(rows, first + 1, Len(rows)))

\* the dict load_reminder_data builds for a row
RecordOf(row) ==
    [id |-> row.id, text |-> row.text, date_time |-> Strftime(row.date_time),
     user_name |-> row.user_name, repeat_type |-> row.repeat_type,
     holiday_type |-> row.holiday_type, creator_id |-> row.creator_id,
     creator_name |-> row.creator_name, is_task |-> row.is_task]

RECURSIVE GroupRows(_, _)
GroupRows(rows, acc) ==
    IF rows = <<>> THEN acc
    ELSE LET k   == Head(rows).session_id
             old == IF DictHas(acc, k) THEN DictGet(acc, k) ELSE <<>>
         IN  GroupRows(Tail(rows), DictSet(acc, k, Append(old, RecordOf(Head(rows)))))

\* PostgresManager.load_reminder_data() and load_postgres_data(); db = FALSE:
\* the query raises
PgLoad(rows, db) == IF db THEN GroupRows(OrderByDateTime(rows), EmptyDict) ELSE EmptyDict

----------------------------------------------------------------------------
(* core/utils.py: backend selection *)

\* async_load_reminder_data / load_reminder_data
LoadStore(bk, file, bak, rows, db) ==
    IF bk = "postgres" THEN [data |-> PgLoad(rows, db), file |-> file, bak |-> bak]
    ELSE load_json_data(file, bak)

\* load_reminder_data(data_file, postgres_url), the load of the
\* constructors; db: the database answers.  load_postgres_data catches
\* nothing: raised is the error of psycopg2.connect or of the query.
load_reminder_data(bk, file, bak, rows, db) ==
    IF bk = "postgres"
        THEN IF db THEN [raised |-> FALSE, data |-> PgLoad(rows, TRUE), file |-> file, bak |-> bak]
             ELSE [raised |-> TRUE, data |-> EmptyDict, file |-> file, bak |-> bak]
    ELSE LET j == load_json_data(file, bak)
         IN  [raised |-> FALSE, data |-> j.data, file |-> j.file, bak |-> j.bak]

\* the result of a flat-file save with the table it leaves alone
SaveResult(s, rows, serial) ==
    [ok |-> s.ok, data |-> s.data, file |-> s.file, rows |-> rows, serial |-> serial]

\* async_save_reminder_data(data_file, postgres_url, reminder_data).  With a
\* postgres_url it calls postgres_manager.async_save_reminder_data, a method
\* PostgresManager does not define: the AttributeError is caught and the
\* save returns False without touching the table or the caller's dict.
async_save_reminder_data(bk, file, rows, serial, d, today, io) ==
    IF bk = "postgres"
    THEN [ok |-> FALSE, data |-> d, file |-> file, rows |-> rows, serial |-> serial]
    ELSE SaveResult(JsonSave(file, d, today, io), rows, serial)

----------------------------------------------------------------------------
(* session keys: core/tools.py get_session_id, core/scheduler.py           *)
(* get_original_session_id                                                 *)

\* s.split(t)
RECURSIVE Split(_, _)
Split(s, t) ==
    IF Positions(s, t) = {} THEN <<s>>
    ELSE LET i == Min(Positions(s, t))
         IN  <<SubSeq(s, 1, i - 1)>> \o Split(SubSeq(s, i + 1, Len(s)), t)

\* s.split(t, n)
RECURSIVE SplitN(_, _, _)
SplitN(s, t, n) ==
    IF n = 0 \/ Positions(s, t) = {} THEN <<s>>
    ELSE LET i == Min(Positions(s, t))
         IN  <<SubSeq(s, 1, i - 1)>> \o SplitN(SubSeq(s, i + 1, Len(s)), t, n - 1)

Last(q) == q[Len(q)]

\* a get_session_id that isolates nothing
SessionIdRaw(unique, msg_origin, creator_id) == msg_origin

\* ReminderTools.get_session_id(msg_origin, creator_id)
get_session_id(unique, msg_origin, creator_id) ==
    IF ~unique THEN msg_origin
    ELSE IF ~TruthySeq(creator_id) THEN msg_origin
    ELSE IF \/ Contains(msg_origin, <<":", "GroupMessage", ":">>)
            \/ Contains(msg_origin, <<"@chatroom">>)
            \/ Contains(msg_origin, <<":", "ChannelMessage", ":">>)
            \/ Contains(msg_origin, <<":", "PrivateMessage", ":">>)
        THEN LET parts == RSplit1(msg_origin, ":")
             IN  IF Len(parts) = 2 THEN parts[1] \o <<":">> \o parts[2] \o <<"_">> \o creator_id
                 ELSE msg_origin
    ELSE msg_origin \o <<"_">> \o creator_id

\* self.wechat_platforms
wechat_platforms == {"gewechat", "wechatpadpro", "wecom"}

\* ReminderScheduler.get_original_session_id(session_id)
get_original_session_id(session_id) ==
    LET is_wechat == session_id # <<>> /\ session_id[1] \in wechat_platforms
        generic ==
            IF Contains(session_id, <<"_">>) /\ Contains(session_id, <<":">>) THEN
                IF is_wechat THEN
                    IF Contains(session_id, <<"@chatroom", "_">>) THEN session_id
                    ELSE IF /\ Contains(session_id, <<":", "GroupMessage", ":">>)
                            /\ Contains(Last(Split(session_id, ":")), <<"_">>)
                        THEN LET parts == Split(session_id, ":")
                                 group_parts == RSplit1(Last(parts), "_")
                             IN  IF Len(parts) >= 3 /\ Len(group_parts) = 2
                                     THEN parts[1] \o <<":">> \o parts[2] \o <<":">> \o group_parts[1]
                                 ELSE session_id
                    ELSE session_id
                ELSE LET parts == RSplit1(session_id, ":")
                     IN  IF Len(parts) = 2 /\ Contains(parts[2], <<"_">>)
                             THEN parts[1] \o <<":">> \o RSplit1(parts[2], "_")[1]
                         ELSE session_id
            ELSE session_id
    IN  IF Contains(session_id, <<"@chatroom">>) THEN
            LET parts == SplitN(session_id, ":", 2)
                platform_prefix == IF Contains(session_id, <<":">>) /\ Len(parts) >= 2
                                       THEN parts[1] \o <<":">> \o parts[2] \o <<":">>
                                   ELSE <<>>
                chatroom_parts == Split(session_id, "@chatroom")
            IN  IF Len(chatroom_parts) = 2 THEN
                    IF StartsWith(chatroom_parts[2], <<"_">>)
                        THEN platform_prefix \o Last(Split(chatroom_parts[1], ":")) \o <<"@chatroom">>
                    ELSE session_id
                ELSE generic
        ELSE generic

----------------------------------------------------------------------------
(* core/scheduler.py: job identity and trigger shape *)

\* hashlib.md5(s.encode()).hexdigest(): injective on the strings of the
\* model, and never a string that holds "_" or ":"
Md5Hex(str) == "md5(" \o str \o ")"

\* unique_key and job_id of add_job and _init_scheduler; a job id is the pair
\* of its prefix and the rest
JobId(msg_origin, reminder) ==
    <<"remind_",
      Md5Hex(Flat(msg_origin) \o "_" \o Flat(reminder.text) \o "_" \o DateTimeText(reminder.date_time))>>

\* job_id of remove_reminds: f"remind_{msg_origin}_{int(index) - 1}"
RemoveJobId(msg_origin, index) ==
    <<"remind_", Flat(msg_origin) \o "_" \o ToString(index - 1)>>

\* the callback add_job registers for (repeat_type, holiday_type)
CallbackFor(repeat_type, holiday_type) ==
    IF repeat_type \in {"daily", "weekly", "monthly", "yearly"} THEN
        IF ~Truthy(holiday_type) THEN "_reminder_callback"
        ELSE IF holiday_type = "workday" THEN "_check_and_execute_workday"
        ELSE IF holiday_type = "holiday" THEN "_check_and_execute_holiday"
        ELSE "_reminder_callback"
    ELSE "_reminder_callback"

\* TriggerFor with a gated weekly job that loses its day_of_week
TriggerForGateOnly(repeat_type, holiday_type, dt) ==
    IF repeat_type \in {"daily", "weekly"} /\ holiday_type \in {"workday", "holiday"}
        THEN [kind |-> "cron", hour |-> dt.hour, minute |-> dt.minute]
    ELSE IF repeat_type = "daily"
        THEN [kind |-> "cron", hour |-> dt.hour, minute |-> dt.minute]
    ELSE IF repeat_type = "weekly"
        THEN [kind |-> "cron", day_of_week |-> (Ymd2Ord(dt.year, dt.month, dt.day) + 6) % 7,
              hour |-> dt.hour, minute |-> dt.minute]
    ELSE IF repeat_type = "monthly"
        THEN [kind |-> "cron", day |-> dt.day, hour |-> dt.hour, minute |-> dt.minute]
    ELSE IF repeat_type = "yearly"
        THEN [kind |-> "cron", month |-> dt.month, day |-> dt.day,
              hour |-> dt.hour, minute |-> dt.minute]
    ELSE [kind |-> "date", run_date |-> dt]

\* the trigger add_job registers for (repeat_type, holiday_type) and dt: the
\* keyword arguments of self.scheduler.add_job in the branch taken
TriggerFor(repeat_type, holiday_type, dt) ==
    LET gate_ok == ~Truthy(holiday_type) \/ holiday_type \in {"workday", "holiday"}
    IN  IF repeat_type = "daily" /\ gate_ok
            THEN [kind |-> "cron", hour |-> dt.hour, minute |-> dt.minute]
        ELSE IF repeat_type = "weekly" /\ gate_ok
            THEN [kind |-> "cron", day_of_week |-> Weekday(dt), hour |-> dt.hour, minute |-> dt.minute]
        ELSE IF repeat_type = "monthly" /\ gate_ok
            THEN [kind |-> "cron", day |-> dt.day, hour |-> dt.hour, minute |-> dt.minute]
        ELSE IF repeat_type = "yearly" /\ gate_ok
            THEN [kind |-> "cron", month |-> dt.month, day |-> dt.day,
                  hour |-> dt.hour, minute |-> dt.minute]
        ELSE [kind |-> "date", run_date |-> dt]

\* the job one branch of the chain hands to self.scheduler.add_job
CompileJob(id, msg_origin, reminder, dt) ==
    LET repeat_type  == Get(reminder, "repeat_type")
        holiday_type == Get(reminder, "holiday_type")
        gate_ok == ~Truthy(holiday_type) \/ holiday_type \in {"workday", "holiday"}
    IN  [id |-> id,
         func |-> IF gate_ok THEN CallbackFor(repeat_type, holiday_type) ELSE "_reminder_callback",
         trigger |-> TriggerFor(repeat_type, holiday_type, dt),
         origin |-> msg_origin,
         reminder |-> reminder]

\* add_job that keeps the job already held under the id
SchedulerAddJobKeep(js, job) == js \cup {job}

\* AsyncIOScheduler.add_job(..., id=job.id, replace_existing=True)
SchedulerAddJob(js, job) == {j \in js : j.id # job.id} \cup {job}

\* ReminderScheduler.add_job(msg_origin, reminder, dt); fault: the underlying
\* add_job raises.  raised: the KeyError of reminder['text'] or
\* reminder['date_time'], which is read before the try.
add_job(js, msg_origin, reminder, dt, fault) ==
    IF ~HasKey(reminder, "text") \/ ~HasKey(reminder, "date_time")
        THEN [raised |-> TRUE, ok |-> FALSE, jobs |-> js]
    ELSE IF fault THEN [raised |-> FALSE, ok |-> FALSE, jobs |-> js]
    ELSE [raised |-> FALSE, ok |-> TRUE,
          jobs |-> SchedulerAddJob(js, CompileJob(JobId(msg_origin, reminder), msg_origin, reminder, dt))]

\* a remove_job that clears the scheduler
RemoveAllJobs(js, job_id) == [ok |-> TRUE, jobs |-> {}]

\* ReminderScheduler.remove_job(job_id): False on JobLookupError
remove_job(js, job_id) ==
    IF \E j \in js : j.id = job_id
        THEN [ok |-> TRUE, jobs |-> {j \in js : j.id # job_id}]
    ELSE [ok |-> FALSE, jobs |-> js]

\* a trigger is due at the instant now (second 0 of its minute)
Due(trigger, now) ==
    IF trigger.kind = "date" THEN trigger.run_date = now
    ELSE /\ trigger.hour = now.hour
         /\ trigger.minute = now.minute
         /\ ("day_of_week" \in DOMAIN trigger => trigger.day_of_week = Weekday(now))
         /\ ("day" \in DOMAIN trigger => trigger.day = now.day)
         /\ ("month" \in DOMAIN trigger => trigger.month = now.month)

----------------------------------------------------------------------------
(* core/utils.py: HolidayManager *)

\* date.strftime("%m-%d")
ShortDate(dt) == Pad2(dt.month) \o "-" \o Pad2(dt.day)

\* a holiday table with no entry
NoTable == <<>>

\* The cache file is NoFile when it does not exist, else the dict written.
NoFile == [missing |-> TRUE]

\* _load_holiday_data(): an empty dict when the file is missing or its
\* last_update is more than 30 days old
StaleDays == 30

load_holiday_data(file, today) ==
    IF file = NoFile THEN <<>>
    ELSE IF "last_update" \in DOMAIN file
            /\ (Stamp(today) - Stamp(file["last_update"])) \div (24 * 60) > StaleDays
        THEN <<>>
    ELSE file

\* a fetch that caches what it got, an empty table after a failure as well
FetchCachesFailure(hd, file, year, api, net, today) ==
    LET year_key == ToString(year)
        got      == IF ~net \/ year \notin DOMAIN api THEN NoTable ELSE api[year]
        saved    == [k \in (DOMAIN hd) \cup {year_key, "last_update"} |->
                        IF k = year_key THEN [data |-> got]
                        ELSE IF k = "last_update" THEN today
                        ELSE hd[k]]
    IN  IF year_key \in DOMAIN hd /\ "data" \in DOMAIN hd[year_key]
            THEN [table |-> hd[year_key].data, hd |-> hd, file |-> file, fetched |-> FALSE]
        ELSE [table |-> got, hd |-> saved, file |-> saved, fetched |-> TRUE]

\* fetch_holiday_data(year); net = FALSE: the request fails (non-200, error
\* code, exception).  Returns the table and the cache and file left behind.
fetch_holiday_data(hd, file, year, api, net, today) ==
    LET year_key == ToString(year)
    IN  IF year_key \in DOMAIN hd /\ "data" \in DOMAIN hd[year_key]
            THEN [table |-> hd[year_key].data, hd |-> hd, file |-> file, fetched |-> FALSE]
        ELSE IF ~net \/ year \notin DOMAIN api
            THEN [table |-> NoTable, hd |-> hd, file |-> file, fetched |-> TRUE]
        ELSE LET saved == [k \in (DOMAIN hd) \cup {year_key, "last_update"} |->
                              IF k = year_key THEN [data |-> api[year]]
                              ELSE IF k = "last_update" THEN today
                              ELSE hd[k]]
             IN  [table |-> api[year], hd |-> saved, file |-> saved, fetched |-> TRUE]

\* the weekend test alone, whatever the table says
WeekendOnly(table, date) == Weekday(date) >= 5

\* the decision of is_holiday(date) on the table fetched for date.year
is_holiday(table, date) ==
    IF ShortDate(date) \in DOMAIN table THEN table[ShortDate(date)] = TRUE
    ELSE Weekday(date) >= 5

\* the weekday test alone, whatever the table says
WeekdayOnly(table, date) == ~(Weekday(date) >= 5)

\* the decision of is_workday(date) on the table fetched for date.year
is_workday(table, date) ==
    IF ShortDate(date) \in DOMAIN table THEN table[ShortDate(date)] = FALSE
    ELSE ~(Weekday(date) >= 5)

----------------------------------------------------------------------------
(* core/scheduler.py: _init_scheduler *)

GlobalOrigin == <<"wecom", ":", "FriendMessage", ":", "@all">>

IsReminderJobId(id) == id[1] \in {"remind_", "global_remind_"}

\* the test without its repeat_type conjunct: every outdated record passes
SkipOutdatedAny(reminder, today) == is_outdated(reminder, today)

\* the test that never passes: no record is skipped
SkipNone(reminder, today) == FALSE

\* The "outdated" test of _init_scheduler on a record.  The code tests
\* whether a repeat key is a substring of repeat_type; on the values of
\* the model that is equality.
SkipOutdated(reminder, today) ==
    LET repeat_type == Get(reminder, "repeat_type")
    IN  /\ \/ repeat_type = "none"
           \/ repeat_type \notin {"daily", "weekly", "monthly", "yearly", "none"}
        /\ is_outdated(reminder, today)

\* One round of the loop over self.all_user_reminds, for an entry with a
\* content, a date_time and a repeat_type: the job it registers.  The
\* reminder carries the re-parsed date_time, which is after now, so the
\* outdated test of this loop never passes.
GlobalJob(cfg, today) ==
    LET date_time == parse_datetime([fmt |-> "full", s |-> cfg.date_time], NoneVal, today).value
        dt == Strptime(date_time).dt
        reminder == [text |-> cfg.content, date_time |-> Strftime(dt),
                     repeat_type |-> cfg.repeat_type, holiday_type |-> cfg.holiday_type,
                     is_task |-> FALSE]
        id == <<"global_remind_",
                Md5Hex(Flat(GlobalOrigin) \o "_" \o Flat(reminder.text) \o "_" \o DateTimeText(reminder.date_time))>>
    IN  CompileJob(id, GlobalOrigin, reminder, dt)

RECURSIVE InitGlobal(_, _, _)
InitGlobal(js, cfgs, today) ==
    IF cfgs = <<>> THEN js
    ELSE InitGlobal(SchedulerAddJob(js, GlobalJob(Head(cfgs), today)), Tail(cfgs), today)

\* the datetime _init_scheduler compiles a persisted record with:
\* parse_datetime(reminder["date_time"], None), then strptime
InitAnchor(reminder, today) ==
    LET p == parse_datetime([fmt |-> "full", s |-> reminder.date_time], NoneVal, today)
    IN  IF p.ok THEN [ok |-> TRUE, dt |-> Strptime(p.value).dt] ELSE [ok |-> FALSE]

\* the loop over self.reminder_data[msg_origin]; raised: parse_datetime raised
RECURSIVE InitRecords(_, _, _, _)
InitRecords(js, msg_origin, items, today) ==
    IF items = <<>> THEN [raised |-> FALSE, jobs |-> js]
    ELSE LET reminder == Head(items)
         IN  IF ~HasKey(reminder, "date_time")
                 THEN InitRecords(js, msg_origin, Tail(items), today)
             ELSE LET a == InitAnchor(reminder, today)
                  IN  IF ~a.ok THEN [raised |-> TRUE, jobs |-> js]
                      ELSE IF SkipOutdated(reminder, today)
                          THEN InitRecords(js, msg_origin, Tail(items), today)
                      ELSE InitRecords(
                               SchedulerAddJob(js, CompileJob(JobId(msg_origin, reminder),
                                                               msg_origin, reminder, a.dt)),
                               msg_origin, Tail(items), today)

\* the loop over self.reminder_data
RECURSIVE InitSessions(_, _, _)
InitSessions(js, d, today) ==
    IF d = <<>> THEN [raised |-> FALSE, jobs |-> js]
    ELSE LET r == InitRecords(js, Head(d).key, Head(d).items, today)
         IN  IF r.raised THEN r ELSE InitSessions(r.jobs, Tail(d), today)

\* an _init_scheduler that leaves the jobs of the scheduler in place
InitKeepsJobs(js, global_cfgs, reminder_data, today) ==
    InitSessions(InitGlobal(js, global_cfgs, today), reminder_data, today)

\* _init_scheduler(): the jobs the scheduler holds afterwards
init_scheduler(js, global_cfgs, reminder_data, today) ==
    LET cleared == {j \in js : ~IsReminderJobId(j.id)}
    IN  InitSessions(InitGlobal(cleared, global_cfgs, today), reminder_data, today)

----------------------------------------------------------------------------
(* The host's clock.  The instants at which the model observes the process; *)
(* the scheduler runs a job only at an instant its trigger is due at, and a *)
(* run the process does not get to within misfire_grace_time is dropped.    *)

Timeline ==
    << DT(2024, 3, 4, 8, 0),    \* Monday
       DT(2024, 3, 4, 9, 0),    \* Monday
       DT(2024, 3, 5, 9, 0),    \* Tuesday
       DT(2024, 3, 9, 9, 0),    \* Saturday
       DT(2024, 3, 11, 9, 0),   \* Monday
       DT(2024, 4, 4, 9, 0),    \* Thursday
       DT(2025, 3, 4, 9, 0) >>  \* Tuesday

Now == Timeline[clock]

RECURSIVE TotalLen(_)
TotalLen(d) == IF d = <<>> THEN 0 ELSE Len(Head(d).items) + TotalLen(Tail(d))

----------------------------------------------------------------------------
(* core/reminder.py: ReminderSystem *)

\* the week names add_remind accepts
AddWeekMap == {"mon", "tue", "wed", "thu", "fri", "sat", "sun"}

RepeatNames == {"daily", "weekly", "monthly", "yearly", "none"}

HolidayNames == {"workday", "holiday"}

\* the keys list_reminds and remove_reminds collect for the caller
IsCallersKey(key, msg_origin, creator_id) ==
    EndsWith(key, <<"_">> \o creator_id) \/ key = msg_origin

\* reminds: the records of the caller's keys, in dict order
RECURSIVE CallersReminds(_, _, _)
CallersReminds(d, msg_origin, creator_id) ==
    IF d = <<>> THEN <<>>
    ELSE (IF IsCallersKey(Head(d).key, msg_origin, creator_id) THEN Head(d).items ELSE <<>>)
         \o CallersReminds(Tail(d), msg_origin, creator_id)

\* _format_reminder_list(reminders): the records in the order of the
\* numbers the list shows them under, the reminders and then the tasks
NumberedList(reminders) ==
    SelectSeq(reminders, LAMBDA r : ~GetOr(r, "is_task", FALSE))
        \o SelectSeq(reminders, LAMBDA r : GetOr(r, "is_task", FALSE))

\* items without its first record of the text and date_time of removed
PopFirstMatch(items, removed) ==
    LET hits == {i \in 1..Len(items) :
                    items[i].text = removed.text /\ items[i].date_time = removed.date_time}
    IN  IF hits = {} THEN items
        ELSE SubSeq(items, 1, Min(hits) - 1) \o SubSeq(items, Min(hits) + 1, Len(items))

\* the deletion loop of remove_reminds
RemoveFromStore(d, removed, msg_origin, creator_id) ==
    [i \in 1..Len(d) |->
        IF IsCallersKey(d[i].key, msg_origin, creator_id)
            THEN [key |-> d[i].key, items |-> PopFirstMatch(d[i].items, removed)]
        ELSE d[i]]

\* remove_reminds(event, index)
RemoveReminds(ev, index, io) ==
    LET msg_origin == get_session_id(unique_session, ev.origin, ev.user)
        ld      == LoadStore(backend, jsonFile, jsonBak, pgRows, TRUE)
        reminds == CallersReminds(ld.data, msg_origin, ev.user)
    IN  /\ constructed > 0
        /\ IF reminds = <<>> \/ index < 1 \/ index > Len(reminds) THEN
               /\ sysData' = ld.data
               /\ jsonFile' = ld.file
               /\ jsonBak' = ld.bak
               /\ reply' = [op |-> "remove_reminds",
                            status |-> IF reminds = <<>> THEN "nothing" ELSE "bad_index"]
               /\ UNCHANGED <<jobs, pgRows, pgSerial>>
           ELSE
               LET removed == reminds[index]
                   data2   == RemoveFromStore(ld.data, removed, msg_origin, ev.user)
                   job_id  == RemoveJobId(msg_origin, index)
                   rj      == remove_job(jobs, job_id)
                   sv      == async_save_reminder_data(backend, ld.file, pgRows, pgSerial,
                                                       data2, Now, io)
               IN  /\ sysData' = sv.data
                   /\ jsonFile' = sv.file
                   /\ jsonBak' = ld.bak
                   /\ pgRows' = sv.rows
                   /\ pgSerial' = sv.serial
                   /\ jobs' = rj.jobs
                   /\ reply' = [op |-> "remove_reminds", status |-> "deleted",
                                origin |-> ev.origin, user |-> ev.user,
                                msg_origin |-> msg_origin, reminds |-> reminds,
                                removed |-> removed, n |-> index,
                                job_id |-> job_id, job_removed |-> rj.ok, saved |-> sv.ok]
        /\ UNCHANGED <<clock, backend, schedData, constructed, startedAt, registry, all_user_reminds,
                       unique_session, holidayFile, holidayApi, holiday_data, fired, outbox>>

\* list_reminds(event): reloads the store; the reply is the caller's records
ListReminds(ev) ==
    LET msg_origin == get_session_id(unique_session, ev.origin, ev.user)
        ld == LoadStore(backend, jsonFile, jsonBak, pgRows, TRUE)
    IN  /\ constructed > 0
        /\ sysData' = ld.data
        /\ jsonFile' = ld.file
        /\ jsonBak' = ld.bak
        /\ reply' = [op |-> "list_reminds", origin |-> ev.origin, user |-> ev.user,
                     reminds |-> CallersReminds(ld.data, msg_origin, ev.user)]
        /\ UNCHANGED <<clock, backend, pgRows, pgSerial, schedData, jobs, constructed,
                       startedAt, registry, all_user_reminds, unique_session, handlers, holidayFile, holidayApi,
                       holiday_data, fired, outbox>>

\* add_remind(event, text, datetime_str, week, repeat_type, holiday_type, is_task);
\* fault: the scheduler's add_job raises; io: the file can be written
AddRemind(ev, text, tin, week, repeat_in, holiday_in, is_task, fault, io) ==
    LET msg_origin == get_session_id(unique_session, ev.origin, ev.user)
        p == parse_datetime(tin, week, Now)
        week_is_repeat == Truthy(week) /\ week \notin AddWeekMap
                          /\ week \in RepeatNames \cup HolidayNames
        week_bad == Truthy(week) /\ week \notin AddWeekMap /\ ~week_is_repeat
        repeat1  == IF week_is_repeat THEN week ELSE repeat_in
        holiday1 == IF week_is_repeat /\ Truthy(repeat_in) THEN repeat_in ELSE holiday_in
        input == <<tin, week, repeat_in, holiday_in>>
        Reject(why) ==
            /\ reply' = [op |-> "add_remind", status |-> why, input |-> input]
            /\ UNCHANGED <<sysData, jobs, jsonFile, pgRows, pgSerial, fired>>
    IN  /\ constructed > 0
        /\ IF ~p.ok THEN Reject("bad_time")
           ELSE IF week_bad THEN Reject("bad_week")
           ELSE IF Truthy(repeat1) /\ repeat1 \notin RepeatNames THEN Reject("bad_repeat")
           ELSE IF Truthy(holiday1) /\ holiday1 \notin HolidayNames THEN Reject("bad_holiday")
           ELSE
               LET dt == Strptime(p.value).dt
                   reminder == [text |-> text, date_time |-> Strftime(dt),
                                user_name |-> ev.user,
                                repeat_type |-> IF Truthy(repeat1) THEN repeat1 ELSE "none",
                                holiday_type |-> IF Truthy(holiday1) THEN holiday1 ELSE NoneVal,
                                creator_id |-> ev.user, creator_name |-> ev.name,
                                is_task |-> is_task]
                   old   == IF DictHas(sysData, msg_origin) THEN DictGet(sysData, msg_origin)
                            ELSE <<>>
                   data1 == DictSet(sysData, msg_origin, Append(old, reminder))
                   aj    == add_job(jobs, msg_origin, reminder, dt, fault)
                   sv    == async_save_reminder_data(backend, jsonFile, pgRows, pgSerial,
                                                     data1, Now, io)
               IN  IF ~aj.ok THEN
                       /\ sysData' = data1
                       /\ reply' = [op |-> "add_remind", status |-> "not_scheduled",
                                    msg_origin |-> msg_origin, reminder |-> reminder,
                                    input |-> input]
                       /\ UNCHANGED <<jobs, jsonFile, pgRows, pgSerial, fired>>
                   ELSE
                       /\ sysData' = sv.data
                       /\ jobs' = aj.jobs
                       /\ fired' = IF Due(TriggerFor(reminder.repeat_type,
                                                     reminder.holiday_type, dt), Now)
                                       THEN fired \cup {JobId(msg_origin, reminder)}
                                   ELSE fired
                       /\ jsonFile' = sv.file
                       /\ pgRows' = sv.rows
                       /\ pgSerial' = sv.serial
                       /\ reply' = [op |-> "add_remind",
                                    status |-> IF sv.ok THEN "added" ELSE "not_saved",
                                    msg_origin |-> msg_origin, reminder |-> reminder,
                                    job_id |-> JobId(msg_origin, reminder), input |-> input]
        /\ UNCHANGED <<clock, backend, jsonBak, schedData, constructed, startedAt, registry,
                       all_user_reminds, unique_session, holidayFile, holidayApi,
                       holiday_data, outbox>>

----------------------------------------------------------------------------
(* core/scheduler.py: the callbacks and the scheduler's runs *)

\* s.strip() on a token sequence; " " is the whitespace token
RECURSIVE LStrip(_)
LStrip(s) == IF s # <<>> /\ Head(s) = " " THEN LStrip(Tail(s)) ELSE s

RECURSIVE RStrip(_)
RStrip(s) == IF s # <<>> /\ s[Len(s)] = " " THEN RStrip(SubSeq(s, 1, Len(s) - 1)) ELSE s

Strip(s) == RStrip(LStrip(s))

\* the records the list comprehension of _reminder_callback drops
IsFiredRecord(r, reminder) ==
    /\ Strip(GetOr(r, "text", <<>>)) = Strip(GetOr(reminder, "text", <<>>))
    /\ GetOr(r, "date_time", <<>>) = GetOr(reminder, "date_time", <<>>)
    /\ GetOr(r, "creator_id", <<>>) = GetOr(reminder, "creator_id", <<>>)
    /\ GetOr(r, "repeat_type", "") \in {"no-repeat", "none"}

\* target_session_id of _reminder_callback
TargetSession(unified_msg_origin) ==
    IF Contains(unified_msg_origin, <<"aiocqhttp">>)
        THEN get_original_session_id(unified_msg_origin)
    ELSE unified_msg_origin

\* The calls of context.send_message one run of _reminder_callback makes.
\* sends[n] is whether the n-th call returns (TRUE) or raises; the second
\* call is the re-send of the except branch, the third carries the error
\* text of the outer handler.  A global reminder is sent once.
SendCalls(job, sends) ==
    LET calls == IF job.origin = GlobalOrigin \/ sends[1] THEN 1
                 ELSE IF sends[2] THEN 2 ELSE 3
    IN  {[at |-> clock, run |-> constructed, job |-> job.id, origin |-> job.origin,
          session |-> IF job.origin = GlobalOrigin THEN GlobalOrigin
                      ELSE TargetSession(job.origin),
          reminder |-> job.reminder, n |-> n, sent |-> sends[n]] : n \in 1..calls}

\* The call of conversation_manager.get_curr_conversation_id one run of
\* _reminder_callback makes for a session reminder, recorded as call 0 of
\* the run; sent: the call returned.  It is made with the key the job was
\* registered under.
HistoryCalls(job) ==
    IF job.origin = GlobalOrigin THEN {}
    ELSE {[at |-> clock, run |-> constructed, job |-> job.id, origin |-> job.origin,
           session |-> job.origin, reminder |-> job.reminder, n |-> 0, sent |-> TRUE]}

\* a callback that forgets the session's records whenever it runs
CallbackForgets(job, sends, io) ==
    [data |-> IF DictHas(schedData, job.origin) THEN DictSet(schedData, job.origin, <<>>)
              ELSE schedData,
     file |-> jsonFile, rows |-> pgRows, serial |-> pgSerial, saved |-> FALSE]

\* _reminder_callback(unified_msg_origin, reminder): the store and the
\* backend it leaves behind
reminder_callback(job, sends, io) ==
    LET unchanged == [data |-> schedData, file |-> jsonFile, rows |-> pgRows,
                      serial |-> pgSerial, saved |-> FALSE]
    IN  IF job.origin = GlobalOrigin THEN unchanged
        ELSE IF /\ sends[1]
                /\ Get(job.reminder, "repeat_type") \in {"no-repeat", "none"}
                /\ DictHas(schedData, job.origin)
            THEN LET kept == SelectSeq(DictGet(schedData, job.origin),
                                       LAMBDA r : ~IsFiredRecord(r, job.reminder))
                     sv   == async_save_reminder_data(backend, jsonFile, pgRows, pgSerial,
                                                      DictSet(schedData, job.origin, kept),
                                                      Now, io)
                 IN  [data |-> sv.data, file |-> sv.file, rows |-> sv.rows,
                      serial |-> sv.serial, saved |-> sv.ok]
        ELSE unchanged

\* calls made whatever the gate says
UngatedCalls(pass, job, sends) == HistoryCalls(job) \cup SendCalls(job, sends)

\* the calls of a run: those of _reminder_callback when the gate lets the
\* occurrence pass, none otherwise
GatedCalls(pass, job, sends) ==
    IF pass THEN HistoryCalls(job) \cup SendCalls(job, sends) ELSE {}

\* The scheduler runs a due job: _check_and_execute_workday,
\* _check_and_execute_holiday or _reminder_callback.  net: the calendar
\* request succeeds.
Fire(job, net, sends, io) ==
    LET gated == job.func \in {"_check_and_execute_workday", "_check_and_execute_holiday"}
        f     == fetch_holiday_data(holiday_data, holidayFile, Now.year, holidayApi, net, Now)
        pass  == IF job.func = "_check_and_execute_workday" THEN is_workday(f.table, Now)
                 ELSE IF job.func = "_check_and_execute_holiday" THEN is_holiday(f.table, Now)
                 ELSE TRUE
        cb    == reminder_callback(job, sends, io)
    IN  /\ constructed > 0
        /\ job \in jobs
        /\ Due(job.trigger, Now)
        /\ job.id \notin fired
        /\ fired' = fired \cup {job.id}
        /\ jobs' = IF job.trigger.kind = "date" THEN jobs \ {job} ELSE jobs
        /\ holiday_data' = IF gated THEN f.hd ELSE holiday_data
        /\ holidayFile' = IF gated THEN f.file ELSE holidayFile
        /\ outbox' = outbox \cup GatedCalls(pass, job, sends)
        /\ IF pass THEN
               /\ schedData' = cb.data
               /\ jsonFile' = cb.file
               /\ pgRows' = cb.rows
               /\ pgSerial' = cb.serial
           ELSE UNCHANGED <<schedData, jsonFile, pgRows, pgSerial>>
        /\ reply' = [op |-> "fire", job |-> job,
                     table |-> IF gated THEN f.table ELSE NoTable,
                     fetched |-> gated /\ f.fetched, executed |-> pass]
        /\ UNCHANGED <<clock, backend, jsonBak, sysData, constructed, startedAt, registry,
                       all_user_reminds, unique_session, handlers, holidayApi>>

\* Time passes to the next instant of the timeline.  A date job whose run
\* date went by without a run is a misfire past misfire_grace_time: it is
\* dropped.
Tick ==
    /\ clock < Len(Timeline)
    /\ clock' = clock + 1
    /\ fired' = {}
    /\ outbox' = {}
    /\ jobs' = {j \in jobs : j.trigger.kind = "date"
                                => Stamp(j.trigger.run_date) >= Stamp(Timeline[clock + 1])}
    /\ reply' = [op |-> "tick"]
    /\ UNCHANGED <<backend, jsonFile, jsonBak, pgRows, pgSerial, sysData, schedData,
                   constructed, startedAt, registry, all_user_reminds, unique_session, handlers, holidayFile,
                   holidayApi, holiday_data>>

\* the number of times the plugin is constructed in one behaviour
MaxStarts == 1

\* The plugin is constructed: the store is loaded for ReminderScheduler,
\* whose __init__ builds the HolidayManager and runs _init_scheduler, and
\* ReminderSystem.__init__ loads a dict of its own.  A job registered at an
\* instant has its next run after that instant.
\* ReminderScheduler.__init__: the AsyncIOScheduler of the registry, created
\* only when the registry holds none
GlobalScheduler(reg) == IF reg = 0 THEN 1 ELSE reg

\* the construction of the plugin: the stores are loaded, the scheduler is
\* taken from the registry and _init_scheduler registers the jobs
Construct ==
    LET ld   == LoadStore(backend, jsonFile, jsonBak, pgRows, TRUE)
        init == init_scheduler(jobs, all_user_reminds, ld.data, Now)
        ld2  == LoadStore(backend, ld.file, ld.bak, pgRows, TRUE)
    IN  /\ schedData' = ld.data
        /\ registry' = GlobalScheduler(registry)
        /\ sysData' = ld2.data
        /\ jsonFile' = ld2.file
        /\ jsonBak' = ld2.bak
        /\ holiday_data' = load_holiday_data(holidayFile, Now)
        /\ jobs' = init.jobs
        /\ fired' = {j.id : j \in {k \in init.jobs : Due(k.trigger, Now)}}
        /\ constructed' = IF init.raised THEN constructed ELSE constructed + 1
        /\ startedAt' = clock
        /\ reply' = [op |-> "startup", raised |-> init.raised]
        /\ UNCHANGED <<clock, backend, pgRows, pgSerial, all_user_reminds, unique_session, handlers,
                       holidayFile, holidayApi, outbox>>

Startup == constructed < MaxStarts /\ Construct

\* ReminderScheduler.add_job(msg_origin, reminder, dt) called on the
\* constructed scheduler; held: the jobs registered under the id before
AddJob(msg_origin, reminder, dt, fault) ==
    /\ constructed > 0
    /\ jobs' = add_job(jobs, msg_origin, reminder, dt, fault).jobs
    /\ fired' = IF /\ add_job(jobs, msg_origin, reminder, dt, fault).ok
                   /\ Due(TriggerFor(Get(reminder, "repeat_type"),
                                     Get(reminder, "holiday_type"), dt), Now)
                    THEN fired \cup {JobId(msg_origin, reminder)}
                ELSE fired
    /\ reply' = IF add_job(jobs, msg_origin, reminder, dt, fault).raised
                    THEN [op |-> "add_job", raised |-> TRUE, ok |-> FALSE,
                          fault |-> fault, msg_origin |-> msg_origin,
                          reminder |-> reminder, dt |-> dt]
                ELSE [op |-> "add_job", raised |-> FALSE,
                      ok |-> add_job(jobs, msg_origin, reminder, dt, fault).ok,
                      fault |-> fault, msg_origin |-> msg_origin, reminder |-> reminder,
                      dt |-> dt, job_id |-> JobId(msg_origin, reminder),
                      held |-> {j \in jobs : j.id = JobId(msg_origin, reminder)}]
    /\ UNCHANGED <<clock, backend, jsonFile, jsonBak, pgRows, pgSerial, sysData, schedData,
                   constructed, startedAt, registry, all_user_reminds, unique_session, handlers, holidayFile,
                   holidayApi, holiday_data, outbox>>

\* ReminderScheduler.remove_job(job_id) called on the constructed scheduler;
\* held: the jobs registered before the call
RemoveJob(job_id) ==
    /\ constructed > 0
    /\ jobs' = remove_job(jobs, job_id).jobs
    /\ reply' = [op |-> "remove_job", ok |-> remove_job(jobs, job_id).ok,
                 job_id |-> job_id, held |-> jobs]
    /\ UNCHANGED <<clock, backend, jsonFile, jsonBak, pgRows, pgSerial, sysData, schedData,
                   constructed, startedAt, registry, all_user_reminds, unique_session, handlers,
                   holidayFile, holidayApi, holiday_data, fired, outbox>>

----------------------------------------------------------------------------
(* The environment: sessions, users, inputs, persisted stores *)

SessionA == <<"aiocqhttp", ":", "GroupMessage", ":", "100">>

SessionB == <<"gewechat", ":", "FriendMessage", ":", "wxid7">>

EventA == [origin |-> SessionA, user |-> <<"u1">>, name |-> <<"Ann">>]

EventB == [origin |-> SessionB, user |-> <<"u2">>, name |-> <<"Bob">>]

\* "9:00" and "8:00"
NineOClock == [fmt |-> "regex", am_pm |-> NoneVal, hour |-> 9, minute |-> 0]

EightOClock == [fmt |-> "regex", am_pm |-> NoneVal, hour |-> 8, minute |-> 0]

\* a record as add_remind builds and persists it
Persisted(text, dt, repeat_type, holiday_type) ==
    [text |-> text, date_time |-> Strftime(dt), user_name |-> <<"u1">>,
     repeat_type |-> repeat_type, holiday_type |-> holiday_type,
     creator_id |-> <<"u1">>, creator_name |-> <<"Ann">>, is_task |-> FALSE]

\* what the calendar source serves: 2024 with Monday 03-04 a legal holiday
\* and Saturday 03-09 a compensatory workday; no other year
HolidayApis ==
    { [y \in {2024} |-> [d \in {"03-04", "03-09"} |-> d = "03-04"]] }

\* outcomes of the calls of send_message of one run of the callback
SendOutcomes == {<<TRUE>>, <<FALSE, TRUE>>, <<FALSE, FALSE, FALSE>>}

\* the handlers whose coroutines a race follows
HandlerNames == {"add_remind", "remove_reminds"}

\* no coroutine of a race has been started
NoHandlers == [h \in HandlerNames |-> [status |-> "idle", n |-> 0]]

\* the state before the plugin is constructed, but for the persisted store
\* and the calendar source
Blank ==
    /\ clock = 1
    /\ jsonBak = [kind |-> "missing"]
    /\ sysData = EmptyDict
    /\ schedData = EmptyDict
    /\ jobs = {}
    /\ constructed = 0
    /\ startedAt = 0
    /\ registry = 0
    /\ unique_session = FALSE
    /\ holidayFile = NoFile
    /\ holiday_data = <<>>
    /\ fired = {}
    /\ outbox = {}
    /\ reply = [op |-> "none"]
    /\ handlers = NoHandlers

\* the size of the store a creation is accepted at
MaxRecords == 2

----------------------------------------------------------------------------
(* SpecLife: records are created, listed, deleted and fired *)

LifeCadences == { <<"none", NoneVal>>, <<"weekly", NoneVal>> }

\* the last instant of the timeline SpecLife runs to
LifeHorizon == 3

InitLife ==
    /\ Blank
    /\ backend = "json"
    /\ pgRows = <<>>
    /\ pgSerial = 0
    /\ all_user_reminds = <<>>
    /\ holidayApi \in HolidayApis
    /\ jsonFile \in
          { [kind |-> "missing"],
            JsonOf(<<[key |-> SessionA,
                      items |-> <<Persisted(<<"pill">>, DT(2024, 3, 4, 9, 0), "none", NoneVal)>>]>>) }

LifeAdd ==
    \E cad \in LifeCadences :
        /\ TotalLen(sysData) < MaxRecords
        /\ AddRemind(EventA, <<"meeting">>, NineOClock, NoneVal, cad[1], cad[2], FALSE, FALSE, TRUE)
        /\ UNCHANGED handlers

\* io: the flat file can be written
LifeRemove ==
    /\ \E index \in 1..MaxRecords, io \in BOOLEAN : RemoveReminds(EventA, index, io)
    /\ UNCHANGED handlers

LifeList == ListReminds(EventA)

LifeFire == \E job \in jobs, sends \in SendOutcomes : Fire(job, TRUE, sends, TRUE)

\* the host's clock is observed from the construction on
LifeTick == constructed > 0 /\ clock < LifeHorizon /\ Tick

NextLife == Startup \/ LifeAdd \/ LifeRemove \/ LifeList \/ LifeFire \/ LifeTick

SpecLife == InitLife /\ [][NextLife]_vars

\* the records of session key k in the store d
ItemsOf(d, k) == IF DictHas(d, k) THEN DictGet(d, k) ELSE <<>>

\* the records of the persisted store under session key k
PersistedItems(k) ==
    IF backend = "postgres" THEN ItemsOf(PgLoad(pgRows, TRUE), k)
    ELSE IF jsonFile.kind = "dict" THEN ItemsOf(JsonLoads(jsonFile.data), k)
    ELSE <<>>

\* the records of items with the text and date_time of r
Twins(items, r) ==
    SelectSeq(items, LAMBDA x : x.text = r.text /\ x.date_time = r.date_time)

\* remove_reminds has just deleted a record add_remind created (in SpecLife
\* those of the text "meeting"), the only one of its text and date_time
RemovedCreated ==
    /\ reply.op = "remove_reminds"
    /\ reply.status = "deleted"
    /\ reply.removed.text = <<"meeting">>
    /\ Len(Twins(reply.reminds, reply.removed)) = 1

\* C1: after add_remind created a record in a session and remove_reminds was
\* called with the record's 1-based index in that session, the session's
\* store no longer holds the record and the scheduler holds no job under the
\* id add_job registered for it.
C1_RemoveCancels ==
    RemovedCreated =>
        /\ Twins(ItemsOf(sysData, reply.msg_origin), reply.removed) = <<>>
        /\ ~\E j \in jobs : j.id = JobId(reply.msg_origin, reply.removed)

\* the store part of C1 alone, which the code keeps
C1_RemoveDeletes ==
    RemovedCreated => Twins(ItemsOf(sysData, reply.msg_origin), reply.removed) = <<>>

\* _reminder_callback has just run for a one-shot record of a session and
\* its first send_message returned
FiredOneShot ==
    /\ reply.op = "fire"
    /\ reply.executed
    /\ reply.job.id[1] = "remind_"
    /\ Get(reply.job.reminder, "repeat_type") = "none"
    /\ \E e \in outbox : e.job = reply.job.id /\ e.n = 1 /\ e.sent

\* C2: once the fire callback has executed the occurrence of a one-shot
\* record, loaded at startup or created through add_remind, the record is
\* absent from the in-memory store and from the persisted store.
C2_OneShotGone ==
    FiredOneShot =>
        /\ Twins(ItemsOf(schedData, reply.job.origin), reply.job.reminder) = <<>>
        /\ Twins(PersistedItems(reply.job.origin), reply.job.reminder) = <<>>

----------------------------------------------------------------------------
(* SpecCompile: add_job is called for every pair of the trigger-shape table *)

CompileRepeats == {"daily", "weekly", "monthly", "yearly", "none"}

CompileGates == {NoneVal, "workday", "holiday"}

\* Monday 2024-03-04 09:00 and Thursday 2024-04-11 08:30
CompileAnchors == {DT(2024, 3, 4, 9, 0), DT(2024, 4, 11, 8, 30)}

InitCompile ==
    /\ Blank
    /\ backend = "json"
    /\ pgRows = <<>>
    /\ pgSerial = 0
    /\ all_user_reminds = <<>>
    /\ holidayApi = [y \in {2024} |-> [d \in {"03-04"} |-> TRUE]]
    /\ jsonFile = [kind |-> "missing"]

CompileAdd ==
    \E rt \in CompileRepeats, ht \in CompileGates, a \in CompileAnchors, fault \in BOOLEAN :
        AddJob(SessionA, Persisted(<<"meeting">>, a, rt, ht), a, fault)

NextCompile == Startup \/ CompileAdd

SpecCompile == InitCompile /\ [][NextCompile]_vars

\* the jobs held for the record of session key o with text t and date_time d
TriggersOf(o, t, d) ==
    {j \in jobs : j.origin = o /\ j.reminder.text = t /\ j.reminder.date_time = d}

\* the jobs held for the record add_job was last called with
TriggersOfReply ==
    TriggersOf(reply.msg_origin, reply.reminder.text, reply.reminder.date_time)

\* C4: for every (repeat_type, holiday_type) pair of the table, add_job
\* called again with the session key, text and date_time of a job already
\* held returns true when the scheduler takes the job, and leaves exactly
\* one job for that record: the one of the second call.
C4_AddJobReplaces ==
    (reply.op = "add_job" /\ ~reply.fault) =>
        /\ reply.ok
        /\ Cardinality(TriggersOfReply) = 1
        /\ \A j \in TriggersOfReply : j.id = reply.job_id /\ j.reminder = reply.reminder

\* add_job has just been called a second time with the same record
C4_Witness ==
    /\ reply.op = "add_job"
    /\ reply.ok
    /\ reply.held # {}
    /\ \A j \in reply.held : j.reminder = reply.reminder

\* the cadence fields the table prescribes for repeat kind rt at the anchor
TableShape(rt, anchor) ==
    CASE rt = "daily"   -> [kind |-> "cron", hour |-> anchor.hour, minute |-> anchor.minute]
      [] rt = "weekly"  -> [kind |-> "cron", day_of_week |-> Weekday(anchor),
                            hour |-> anchor.hour, minute |-> anchor.minute]
      [] rt = "monthly" -> [kind |-> "cron", day |-> anchor.day,
                            hour |-> anchor.hour, minute |-> anchor.minute]
      [] rt = "yearly"  -> [kind |-> "cron", month |-> anchor.month, day |-> anchor.day,
                            hour |-> anchor.hour, minute |-> anchor.minute]
      [] OTHER          -> [kind |-> "date", run_date |-> anchor]

\* the callback the table prescribes: the gated one for a gated cadence
TableCallback(rt, ht) ==
    IF rt = "none" THEN "_reminder_callback"
    ELSE CASE ht = "workday" -> "_check_and_execute_workday"
           [] ht = "holiday" -> "_check_and_execute_holiday"
           [] OTHER          -> "_reminder_callback"

\* C6: the job add_job registers has the trigger shape of the table for its
\* (repeat_type, holiday_type): none is a date trigger at the anchor whatever
\* the gate, daily a cron on hour:minute, weekly adds the anchor's weekday,
\* monthly the anchor's day, yearly the anchor's month and day; a gate only
\* swaps the callback and keeps the cadence fields.
C6_TriggerShape ==
    (reply.op = "add_job" /\ reply.ok) =>
        \E j \in jobs :
            /\ j.id = reply.job_id
            /\ j.trigger = TableShape(reply.reminder.repeat_type, reply.dt)
            /\ j.func = TableCallback(reply.reminder.repeat_type, reply.reminder.holiday_type)

\* add_job has just registered a gated weekly job
C6_Witness ==
    /\ reply.op = "add_job"
    /\ reply.ok
    /\ reply.reminder.repeat_type = "weekly"
    /\ reply.reminder.holiday_type = "workday"
    /\ \E j \in jobs : j.id = reply.job_id /\ "day_of_week" \in DOMAIN j.trigger

----------------------------------------------------------------------------
(* SpecStartup: the plugin is constructed on a persisted store, at any      *)
(* instant, and its jobs run                                                *)

\* the records a persisted store of the model is made of
StartPool ==
    { Persisted(<<"pill">>, DT(2024, 3, 4, 8, 0), "none", NoneVal),
      Persisted(<<"trip">>, DT(2024, 3, 11, 9, 0), "none", NoneVal),
      Persisted(<<"meeting">>, DT(2024, 3, 4, 9, 0), "weekly", "workday"),
      Persisted(<<"rent">>, DT(2024, 3, 4, 9, 0), "monthly", NoneVal),
      Persisted(<<"party">>, DT(2024, 3, 4, 9, 0), "yearly", "holiday") }

\* the lists of at most MaxRecords records
StartLists == UNION {[1..n -> StartPool] : n \in 0..MaxRecords}

\* an all-user reminder of the configuration
GlobalCfg ==
    [content |-> <<"standup">>, date_time |-> Strftime(DT(2024, 3, 4, 9, 0)),
     repeat_type |-> "daily", holiday_type |-> NoneVal]

\* the last instant of the timeline SpecStartup runs to
StartHorizon == 5

InitStartup ==
    /\ Blank
    /\ backend = "json"
    /\ pgRows = <<>>
    /\ pgSerial = 0
    /\ all_user_reminds \in {<<>>, <<GlobalCfg>>}
    /\ holidayApi = [y \in {2024} |-> [d \in {"03-04"} |-> TRUE]]
    /\ jsonFile \in {JsonOf(IF q = <<>> THEN EmptyDict
                             ELSE <<[key |-> SessionA, items |-> q]>>) : q \in StartLists}

StartFire == \E job \in jobs : Fire(job, TRUE, <<TRUE>>, TRUE)

StartTick == clock < StartHorizon /\ Tick

NextStartup == Startup \/ StartFire \/ StartTick

SpecStartup == InitStartup /\ [][NextStartup]_vars

\* the job add_job registers for the record held by job j: the one compiled
\* with the persisted date_time as anchor
AsCreated(j) == CompileJob(j.id, j.origin, j.reminder, Strptime(j.reminder.date_time).dt)

\* C3: the trigger _init_scheduler compiles for a persisted record is
\* anchored on the record's date_time (a one-shot runs at date_time, a
\* weekly job on its weekday, a monthly job on its day, a yearly job on its
\* month and day): it is the job add_job registered at creation.
C3_StartupAnchored ==
    reply.op = "startup" =>
        \A j \in jobs : j.id[1] = "remind_" => j = AsCreated(j)

\* the record was a one-shot record of the past when the plugin was constructed
PastOneShotAtStart(r) ==
    /\ Get(r, "repeat_type") = "none"
    /\ Stamp(Strptime(r.date_time).dt) <= Stamp(Timeline[startedAt])

\* C7: a persisted one-shot record whose date_time is in the past at startup
\* gets no trigger, and the fire callback is never invoked for it.
C7_PastOneShotDropped ==
    constructed > 0 =>
        /\ \A j \in jobs : j.id[1] = "remind_" => ~PastOneShotAtStart(j.reminder)
        /\ \A e \in outbox : e.job[1] = "remind_" => ~PastOneShotAtStart(e.reminder)

\* the plugin has been constructed on a store that holds a past one-shot record
C7_Witness ==
    /\ reply.op = "startup"
    /\ ~reply.raised
    /\ \E e \in AllRecords(schedData) : PastOneShotAtStart(e.rec)

\* the record is recurring, or one-shot with a date_time in the future
Owed(r) ==
    \/ Get(r, "repeat_type") \in {"daily", "weekly", "monthly", "yearly"}
    \/ /\ Get(r, "repeat_type") = "none"
       /\ Stamp(Strptime(r.date_time).dt) > Stamp(Now)

\* the job ids owed to the records of the store d
OwedIds(d) ==
    {JobId(d[i].key, d[i].items[k]) :
        <<i, k>> \in {p \in (DOMAIN d) \X (1..MaxRecords + 1) :
                        p[2] <= Len(d[p[1]].items) /\ Owed(d[p[1]].items[p[2]])}}

----------------------------------------------------------------------------
(* SpecGate: gated and ungated jobs fire on workdays, holidays and weekends, *)
(* with the calendar source reachable or not                                *)

\* the records a persisted store of SpecGate is made of
GateRecords ==
    << Persisted(<<"meeting">>, DT(2024, 3, 4, 9, 0), "weekly", "workday"),
       Persisted(<<"rest">>, DT(2024, 3, 4, 9, 0), "daily", "holiday"),
       Persisted(<<"pill">>, DT(2024, 3, 4, 9, 0), "daily", NoneVal),
       Persisted(<<"standup">>, DT(2024, 3, 4, 9, 0), "daily", "workday"),
       Persisted(<<"once">>, DT(2024, 3, 9, 9, 0), "none", "workday") >>

\* the lists of at most MaxRecords of these records, each at most once, in
\* this order
GateLists ==
    UNION {{[i \in 1..n |-> GateRecords[f[i]]] :
               f \in {g \in [1..n -> DOMAIN GateRecords] :
                         \A i \in 1..n, j \in 1..n : i < j => g[i] < g[j]}} :
           n \in 0..MaxRecords}

\* the last instant of the timeline SpecGate runs to
GateHorizon == 6

InitGate ==
    /\ Blank
    /\ backend = "json"
    /\ pgRows = <<>>
    /\ pgSerial = 0
    /\ all_user_reminds = <<>>
    /\ holidayApi \in HolidayApis
    /\ jsonFile \in {JsonOf(IF q = <<>> THEN EmptyDict
                             ELSE <<[key |-> SessionA, items |-> q]>>) : q \in GateLists}

GateFire ==
    \E job \in jobs, net \in BOOLEAN, sends \in SendOutcomes : Fire(job, net, sends, TRUE)

GateTick == clock < GateHorizon /\ Tick

NextGate == Startup \/ GateFire \/ GateTick

SpecGate == InitGate /\ [][NextGate]_vars

\* the gate of a record: holiday_type on a recurring record, none on a
\* one-shot record, where the gate is ignored
EffectiveGate(r) ==
    IF Get(r, "repeat_type") \in {"daily", "weekly", "monthly", "yearly"}
        THEN Get(r, "holiday_type")
    ELSE NoneVal

\* isHoliday(date) of the Calendar Service on the table of the date's year: an
\* entry decides, a date without entry is a holiday when it is a Saturday or
\* a Sunday
ReportsHoliday(table, date) ==
    CASE ShortDate(date) \notin DOMAIN table -> Weekday(date) \in {5, 6}
      [] OTHER -> table[ShortDate(date)]

\* isWorkday(date) of the Calendar Service: a true entry is a holiday, a
\* false entry a compensatory workday, a date without entry is a workday
\* from Monday to Friday
ReportsWorkday(table, date) ==
    CASE ShortDate(date) \notin DOMAIN table -> Weekday(date) \in 0..4
      [] OTHER -> ~table[ShortDate(date)]

\* the first calls of send_message made for the job that has just fired
Deliveries == {e \in outbox : e.job = reply.job.id /\ e.at = clock /\ e.n = 1}

\* C5: when a job fires, a record gated on workdays is delivered if and
\* only if the Calendar Service reports today as a workday, a record gated
\* on holidays if and only if it reports today as a holiday, and a record
\* without gate (a one-shot record has none) always; a delivery is one run
\* of the delivery callback, a skip is none.  So the weekly workday record
\* anchored on a Monday is skipped on a Monday reported as a holiday and
\* delivered exactly once on the next Monday, reported as a workday.
C5_GateDecides ==
    reply.op = "fire" =>
        LET gate == EffectiveGate(reply.job.reminder)
        IN  /\ reply.executed <=>
                   /\ gate = "workday" => ReportsWorkday(reply.table, Now)
                   /\ gate = "holiday" => ReportsHoliday(reply.table, Now)
            /\ Cardinality(Deliveries) = IF reply.executed THEN 1 ELSE 0

\* The store holds the weekly workday record anchored on Monday 2024-03-04
\* alone; its job consulted the calendar on that Monday, a holiday of the
\* table fetched then, and has just delivered on Monday 2024-03-11.
C5_Witness ==
    /\ reply.op = "fire"
    /\ reply.executed
    /\ Now = DT(2024, 3, 11, 9, 0)
    /\ AllRecords(schedData) =
           {[key |-> SessionA,
             rec |-> Persisted(<<"meeting">>, DT(2024, 3, 4, 9, 0), "weekly", "workday")]}
    /\ reply.job.reminder = Persisted(<<"meeting">>, DT(2024, 3, 4, 9, 0), "weekly", "workday")
    /\ reply.job.trigger.day_of_week = 0
    /\ "03-04" \in DOMAIN reply.table
    /\ reply.table["03-04"] = TRUE
    /\ holidayFile # NoFile
    /\ "last_update" \in DOMAIN holidayFile
    /\ holidayFile["last_update"] = DT(2024, 3, 4, 9, 0)
    /\ Cardinality(Deliveries) = 1

----------------------------------------------------------------------------
(* SpecBackends: the same saves and loads are made on the flat-file backend *)
(* and on the relational backend, side by side, with the storage available. *)
(* A pair <<x, y>> holds the flat-file result x and the relational result y. *)

\* the records of the stores saved
BackendPool ==
    { Persisted(<<"pill">>, DT(2024, 3, 4, 8, 0), "none", NoneVal),
      Persisted(<<"trip">>, DT(2024, 3, 11, 9, 0), "none", NoneVal),
      Persisted(<<"rent">>, DT(2024, 3, 4, 9, 0), "monthly", NoneVal) }

\* the lists of at most MaxRecords different records of the pool, in any order
BackendLists ==
    {l \in UNION {[1..n -> BackendPool] : n \in 0..MaxRecords} :
        \A i, j \in DOMAIN l : l[i] = l[j] => i = j}

\* the stores saved: SessionA alone, or with SessionB behind it
BackendStores ==
    {<<[key |-> SessionA, items |-> q]>> : q \in BackendLists}
    \cup {<<[key |-> SessionA, items |-> q], [key |-> SessionB, items |-> r]>> :
              q \in {l \in BackendLists : Len(l) <= 1},
              r \in {<<>>, <<Persisted(<<"rent">>, DT(2024, 3, 4, 9, 0), "monthly", NoneVal)>>}}

\* the last value of the SERIAL column in a behaviour
MaxSerial == 3

\* the last instant of the timeline SpecBackends runs to
BackendHorizon == 3

InitBackends ==
    /\ Blank
    /\ backend = "json"
    /\ pgRows = <<>>
    /\ pgSerial = 0
    /\ all_user_reminds = <<>>
    /\ holidayApi = [y \in {2024} |-> [d \in {"03-04"} |-> TRUE]]
    /\ jsonFile = [kind |-> "missing"]

\* async_save_reminder_data(data_file, postgres_url, d) without and with a
\* postgres_url
DispatchSave ==
    \E d \in BackendStores :
        LET j == async_save_reminder_data("json", jsonFile, pgRows, pgSerial, d, Now, TRUE)
            p == async_save_reminder_data("postgres", jsonFile, pgRows, pgSerial, d, Now, TRUE)
        IN  /\ jsonFile' = j.file
            /\ pgRows' = p.rows
            /\ pgSerial' = p.serial
            /\ reply' = [op |-> "save", ok |-> <<j.ok, p.ok>>, data |-> <<j.data, p.data>>]
            /\ UNCHANGED <<clock, backend, jsonBak, sysData, schedData, jobs, constructed,
                           startedAt, registry, all_user_reminds, unique_session, handlers, holidayFile,
                           holidayApi, holiday_data, fired, outbox>>

\* async_save_reminder_data without postgres_url, and the save of the
\* relational backend itself: PostgresManager.save_reminder_data(d)
ManagerSave ==
    \E d \in BackendStores :
        LET j == async_save_reminder_data("json", jsonFile, pgRows, pgSerial, d, Now, TRUE)
            p == PgSave(pgRows, pgSerial, d, TRUE)
        IN  /\ p.serial <= MaxSerial
            /\ jsonFile' = j.file
            /\ pgRows' = p.rows
            /\ pgSerial' = p.serial
            /\ reply' = [op |-> "manager_save", ok |-> <<j.ok, p.ok>>, data |-> <<j.data, d>>]
            /\ UNCHANGED <<clock, backend, jsonBak, sysData, schedData, jobs, constructed,
                           startedAt, registry, all_user_reminds, unique_session, handlers, holidayFile,
                           holidayApi, holiday_data, fired, outbox>>

\* async_load_reminder_data(data_file, postgres_url) without and with a
\* postgres_url
BothLoad ==
    LET j == LoadStore("json", jsonFile, jsonBak, pgRows, TRUE)
        p == LoadStore("postgres", jsonFile, jsonBak, pgRows, TRUE)
    IN  /\ jsonFile' = j.file
        /\ jsonBak' = j.bak
        /\ reply' = [op |-> "load", data |-> <<j.data, p.data>>]
        /\ UNCHANGED <<clock, backend, pgRows, pgSerial, sysData, schedData, jobs,
                       constructed, startedAt, registry, all_user_reminds, unique_session, handlers,
                       holidayFile, holidayApi, holiday_data, fired, outbox>>

BackendTick == clock < BackendHorizon /\ Tick

NextBackends == DispatchSave \/ ManagerSave \/ BothLoad \/ BackendTick

SpecBackends == InitBackends /\ [][NextBackends]_vars

\* what a load returns now: from the flat file, from the table
LoadedNow ==
    <<load_json_data(jsonFile, jsonBak).data, PgLoad(pgRows, TRUE)>>

\* the store holds no one-shot record of the past and no key without record
Pruned(d) ==
    /\ \A e \in AllRecords(d) :
           ~(/\ Get(e.rec, "repeat_type") = "none"
             /\ Stamp(Strptime(e.rec.date_time).dt) < Stamp(Now))
    /\ \A i \in DOMAIN d : d[i].items # <<>>

\* C9: on either backend, after a save that returned true, a load returns
\* no record of repeat_type none whose date_time is in the past and no
\* session key with an empty list.
C9_SavePrunes ==
    reply.op \in {"save", "manager_save"} =>
        \A b \in 1..2 : reply.ok[b] => Pruned(LoadedNow[b])

\* C10: for the same saves and loads, both backends return true from every
\* save and the same store from every load: the same session keys with the
\* same records in the same order.
C10_BackendsAgree ==
    /\ reply.op \in {"save", "manager_save"} => reply.ok = <<TRUE, TRUE>>
    /\ reply.op = "load" => reply.data[1] = reply.data[2]

\* the record is recurring, or its date_time is after now
MustSurvive(r) ==
    \/ Get(r, "repeat_type") \in {"daily", "weekly", "monthly", "yearly"}
    \/ Stamp(Strptime(r.date_time).dt) > Stamp(Now)

\* the record is a one-shot record whose date_time is before now
PastOneShot(r) ==
    /\ Get(r, "repeat_type") = "none"
    /\ Stamp(Strptime(r.date_time).dt) < Stamp(Now)

\* the flat-file save of the store reply.data[2] has just returned true
FlatSaved == reply.op \in {"save", "manager_save"} /\ reply.ok[1]

\* C11: on the flat-file backend, a load after a save returns, for every
\* session key, the records saved that are recurring or in the future, with
\* every field as saved and in the order saved; every record it returns was
\* saved under that key, and none is a one-shot record of the past.
C11_FlatRoundTrip ==
    FlatSaved =>
        LET d      == reply.data[2]
            loaded == load_json_data(jsonFile, jsonBak).data
        IN  /\ \A i \in DOMAIN d :
                   SelectSeq(ItemsOf(loaded, d[i].key), MustSurvive)
                       = SelectSeq(d[i].items, MustSurvive)
            /\ \A e \in AllRecords(loaded) :
                   /\ ~PastOneShot(e.rec)
                   /\ \E i \in DOMAIN d :
                          /\ d[i].key = e.key
                          /\ \E n \in DOMAIN d[i].items : d[i].items[n] = e.rec

\* a store with a one-shot record of the past in front of a recurring record
\* has just been saved to the flat file, which now holds a record
C11_Witness ==
    /\ FlatSaved
    /\ \E i \in DOMAIN reply.data[2] :
           LET items == reply.data[2][i].items
           IN  /\ Len(items) = 2
               /\ PastOneShot(items[1])
               /\ MustSurvive(items[2])
    /\ AllRecords(load_json_data(jsonFile, jsonBak).data) # {}

----------------------------------------------------------------------------
(* SpecKeys: session keys are isolated per user and deisolated.  A key is   *)
(* its sequence of tokens: "_", ":" and "@chatroom" are tokens of their own. *)

KeyPlatforms == {"aiocqhttp", "telegram", "gewechat", "wecom"}

KeyShapes == {"GroupMessage", "ChannelMessage", "PrivateMessage", "FriendMessage"}

\* raw ids: a number, an id with an underscore, a WeChat chat room
KeyIds == {<<"100">>, <<"wxid", "_", "abc">>, <<"123", "@chatroom">>}

\* creator ids: with and without underscore
KeyCreators == {<<"u1">>, <<"wxid", "_", "u2">>}

RawKeys ==
    {<<p, ":", m, ":">> \o i : p \in KeyPlatforms, m \in KeyShapes, i \in KeyIds}

InitKeys ==
    /\ clock = 1
    /\ backend = "json"
    /\ jsonFile = [kind |-> "missing"]
    /\ jsonBak = [kind |-> "missing"]
    /\ pgRows = <<>>
    /\ pgSerial = 0
    /\ sysData = EmptyDict
    /\ schedData = EmptyDict
    /\ jobs = {}
    /\ constructed = 0
    /\ startedAt = 0
    /\ registry = 0
    /\ all_user_reminds = <<>>
    /\ unique_session \in BOOLEAN
    /\ holidayFile = NoFile
    /\ holidayApi = [y \in {2024} |-> [d \in {"03-04"} |-> TRUE]]
    /\ holiday_data = <<>>
    /\ fired = {}
    /\ outbox = {}
    /\ reply = [op |-> "none"]
    /\ handlers = NoHandlers

\* tools.get_session_id(raw, creator)
KeysIsolate ==
    /\ \E raw \in RawKeys, creator \in KeyCreators :
           reply' = [op |-> "get_session_id",
                     session_id |-> get_session_id(unique_session, raw, creator),
                     msg_origin |-> raw, creator_id |-> creator]
    /\ UNCHANGED <<clock, backend, jsonFile, jsonBak, pgRows, pgSerial, sysData, schedData,
                   jobs, constructed, startedAt, registry, all_user_reminds, unique_session, handlers,
                   holidayFile, holidayApi, holiday_data, fired, outbox>>

\* get_original_session_id of the key get_session_id has just returned
KeysDeisolate ==
    /\ reply.op = "get_session_id"
    /\ reply' = [op |-> "get_original_session_id",
                 origin |-> get_original_session_id(reply.session_id),
                 session_id |-> reply.session_id, msg_origin |-> reply.msg_origin,
                 creator_id |-> reply.creator_id]
    /\ UNCHANGED <<clock, backend, jsonFile, jsonBak, pgRows, pgSerial, sysData, schedData,
                   jobs, constructed, startedAt, registry, all_user_reminds, unique_session, handlers,
                   holidayFile, holidayApi, holiday_data, fired, outbox>>

\* get_original_session_id of a raw key
KeysDeisolateRaw ==
    /\ \E raw \in RawKeys :
           reply' = [op |-> "get_original_session_id",
                     origin |-> get_original_session_id(raw),
                     session_id |-> raw, msg_origin |-> raw, creator_id |-> NoneSeq]
    /\ UNCHANGED <<clock, backend, jsonFile, jsonBak, pgRows, pgSerial, sysData, schedData,
                   jobs, constructed, startedAt, registry, all_user_reminds, unique_session, handlers,
                   holidayFile, holidayApi, holiday_data, fired, outbox>>

NextKeys == KeysIsolate \/ KeysDeisolate \/ KeysDeisolateRaw

SpecKeys == InitKeys /\ [][NextKeys]_vars

\* C12: with isolation enabled, get_original_session_id of the key
\* get_session_id made of a raw key and a creator id is the raw key, for
\* group, channel, private and friend keys of every platform, with or
\* without underscores in the raw id and in the creator id.
C12_IsolateRoundTrip ==
    (unique_session /\ reply.op = "get_original_session_id" /\ reply.creator_id # NoneSeq)
        => reply.origin = reply.msg_origin

\* C13: get_original_session_id of a raw key, never isolated, is that key, on
\* every platform and whatever underscores its last segment holds.
C13_RawKeyUnchanged ==
    (reply.op = "get_original_session_id" /\ reply.creator_id = NoneSeq)
        => reply.origin = reply.session_id

----------------------------------------------------------------------------
(* SpecIsolated: session isolation is on; two users create records in their
   sessions and the scheduler fires them *)

IsolatedEvents == {EventA, EventB}

\* the last instant of the timeline SpecIsolated runs to
IsolatedHorizon == 3

InitIsolated ==
    /\ clock = 1
    /\ backend = "json"
    /\ jsonFile = [kind |-> "missing"]
    /\ jsonBak = [kind |-> "missing"]
    /\ pgRows = <<>>
    /\ pgSerial = 0
    /\ sysData = EmptyDict
    /\ schedData = EmptyDict
    /\ jobs = {}
    /\ constructed = 0
    /\ startedAt = 0
    /\ registry = 0
    /\ all_user_reminds = <<>>
    /\ unique_session = TRUE
    /\ holidayFile = NoFile
    /\ holidayApi \in HolidayApis
    /\ holiday_data = <<>>
    /\ fired = {}
    /\ outbox = {}
    /\ reply = [op |-> "none"]
    /\ handlers = NoHandlers

\* fault: the scheduler's add_job raises and ReminderScheduler.add_job
\* returns False
IsolatedAdd ==
    \E ev \in IsolatedEvents, cad \in LifeCadences, fault \in BOOLEAN :
        /\ TotalLen(sysData) < MaxRecords
        /\ AddRemind(ev, <<"meeting">>, NineOClock, NoneVal, cad[1], cad[2], FALSE, fault, TRUE)
        /\ UNCHANGED handlers

IsolatedFire == \E job \in jobs, sends \in SendOutcomes : Fire(job, TRUE, sends, TRUE)

IsolatedTick == constructed > 0 /\ clock < IsolatedHorizon /\ Tick

NextIsolated == Startup \/ IsolatedAdd \/ IsolatedFire \/ IsolatedTick

SpecIsolated == InitIsolated /\ [][NextIsolated]_vars

\* C14: every call a fire of a session reminder makes to the delivery send
\* or to the conversation history is made with the raw key of the session
\* the record was created in, never with the per-user isolated key.
C14_RawKeyUsed ==
    \A e \in outbox :
        e.origin # GlobalOrigin =>
            \E ev \in IsolatedEvents :
                /\ get_session_id(unique_session, ev.origin, ev.user) = e.origin
                /\ e.session = ev.origin

\* C14, the delivery send alone
C14_SendUsesRawKey ==
    \A e \in outbox :
        (e.origin # GlobalOrigin /\ e.n >= 1) =>
            \E ev \in IsolatedEvents :
                /\ get_session_id(unique_session, ev.origin, ev.user) = e.origin
                /\ e.session = ev.origin

----------------------------------------------------------------------------
(* SpecRace: one add_remind and one remove_reminds of the same user in the
   same session, on either backend.  A coroutine gives way to the other
   only at an await that suspends: the flat-file load and save run to their
   end without suspending, the query of load_reminder_data suspends. *)

\* the records stored before the race, in stored order
RaceStored ==
    << Persisted(<<"trip">>, DT(2024, 3, 11, 9, 0), "none", NoneVal),
       Persisted(<<"rent">>, DT(2024, 3, 4, 9, 0), "monthly", NoneVal) >>

RaceStore == <<[key |-> SessionA, items |-> RaceStored]>>

\* the table after PostgresManager.save_reminder_data(RaceStore)
RaceRows == PgSave(<<>>, 0, RaceStore, TRUE)

\* the last instant of the timeline SpecRace runs to
RaceHorizon == 3

InitRace ==
    /\ Blank
    /\ backend \in {"json", "postgres"}
    /\ jsonFile = IF backend = "json" THEN JsonOf(RaceStore) ELSE [kind |-> "missing"]
    /\ pgRows = IF backend = "postgres" THEN RaceRows.rows ELSE <<>>
    /\ pgSerial = IF backend = "postgres" THEN RaceRows.serial ELSE 0
    /\ all_user_reminds = <<>>
    /\ holidayApi \in HolidayApis

\* add_remind runs from its call to its return: its only await is the save,
\* which mutates nothing after a suspension
RaceAdd ==
    \E cad \in LifeCadences :
        /\ handlers["add_remind"].status = "idle"
        /\ AddRemind(EventA, <<"meeting">>, NineOClock, NoneVal, cad[1], cad[2], FALSE, FALSE, TRUE)
        /\ handlers' = [handlers EXCEPT !["add_remind"] = [status |-> reply'.status, n |-> 0]]

\* remove_reminds on the flat-file backend runs from its call to the return
\* of its save without suspending
RaceRemove ==
    \E index \in 1..Len(RaceStored) :
        /\ backend = "json"
        /\ handlers["remove_reminds"].status = "idle"
        /\ RemoveReminds(EventA, index, TRUE)
        /\ handlers' = [handlers EXCEPT !["remove_reminds"] = [status |-> reply'.status, n |-> index]]

\* remove_reminds on the relational backend is suspended in the query of
\* load_reminder_data
RaceRemoveBegin ==
    \E index \in 1..Len(RaceStored) :
        /\ constructed > 0
        /\ backend = "postgres"
        /\ handlers["remove_reminds"].status = "idle"
        /\ handlers' = [handlers EXCEPT !["remove_reminds"] = [status |-> "loading", n |-> index]]
        /\ UNCHANGED <<clock, backend, jsonFile, jsonBak, pgRows, pgSerial, sysData, schedData,
                       jobs, constructed, startedAt, registry, all_user_reminds, unique_session,
                       holidayFile, holidayApi, holiday_data, fired, outbox, reply>>

\* the query returns and remove_reminds runs to its return.  No step writes
\* the table while the coroutine is suspended, so the rows it gets are the
\* rows of the table at this step.
RaceRemoveResume ==
    /\ handlers["remove_reminds"].status = "loading"
    /\ RemoveReminds(EventA, handlers["remove_reminds"].n, TRUE)
    /\ handlers' = [handlers EXCEPT !["remove_reminds"] =
                        [status |-> reply'.status, n |-> handlers["remove_reminds"].n]]

RaceTick == constructed > 0 /\ clock < RaceHorizon /\ Tick

NextRace ==
    Startup \/ RaceAdd \/ RaceRemove \/ RaceRemoveBegin \/ RaceRemoveResume \/ RaceTick

SpecRace == InitRace /\ [][NextRace]_vars

\* the records remove_reminds lists for the user before the race, in the
\* order of the backend
RaceListed ==
    IF backend = "postgres" THEN ItemsOf(PgLoad(RaceRows.rows, TRUE), SessionA)
    ELSE RaceStored

\* both coroutines have returned
RaceOver ==
    /\ handlers["add_remind"].status # "idle"
    /\ handlers["remove_reminds"].status \notin {"idle", "loading"}

\* the persisted store holds a record with the text and date_time of r
\* under the session key
IsPersisted(r) == Twins(PersistedItems(SessionA), r) # <<>>

\* C15: once the add_remind and the remove_reminds of a race have both
\* returned, the persisted store holds a record with the text of the added
\* one and does not hold the removed one, whatever the interleaving.
C15_BothMutationsPersist ==
    RaceOver =>
        /\ \E i \in DOMAIN PersistedItems(SessionA) :
               PersistedItems(SessionA)[i].text = <<"meeting">>
        /\ ~IsPersisted(RaceListed[handlers["remove_reminds"].n])

\* C15 on the flat-file backend alone: the removed record is gone and the
\* added one is kept until it is a one-shot record whose time has come
C15_FlatFileKeepsBoth ==
    (backend = "json" /\ RaceOver) =>
        /\ \/ \E i \in DOMAIN PersistedItems(SessionA) :
                  PersistedItems(SessionA)[i].text = <<"meeting">>
           \/ /\ handlers["add_remind"].status = "added"
              /\ \E t \in DOMAIN Timeline :
                     /\ t <= clock
                     /\ Stamp(Timeline[t]) >= Stamp(DT(2024, 3, 4, 9, 0))
        /\ ~IsPersisted(RaceListed[handlers["remove_reminds"].n])

\* a race on the flat-file backend has ended with both mutations reported
C15_FlatFileRaceOver ==
    /\ backend = "json"
    /\ handlers["add_remind"].status = "added"
    /\ handlers["remove_reminds"].status = "deleted"

----------------------------------------------------------------------------
(* Failed deliveries, checked on SpecLife and SpecGate *)

\* _reminder_callback has just run for a one-shot record of a session and
\* its first send_message raised
FailedOneShot ==
    /\ reply.op = "fire"
    /\ reply.executed
    /\ reply.job.id[1] = "remind_"
    /\ Get(reply.job.reminder, "repeat_type") = "none"
    /\ \E e \in outbox : e.job = reply.job.id /\ e.at = clock /\ e.n = 1 /\ ~e.sent

\* C16: when the delivery send fails in the fire callback of a one-shot
\* record, the record is nevertheless absent afterwards from the in-memory
\* store of the scheduler and from the persisted store.
C16_FailedOneShotGone ==
    FailedOneShot =>
        /\ Twins(ItemsOf(schedData, reply.job.origin), reply.job.reminder) = <<>>
        /\ Twins(PersistedItems(reply.job.origin), reply.job.reminder) = <<>>

\* the calls of send_message of the run of the callback that has just ended
SendsOfRun == {e \in outbox : e.job = reply.job.id /\ e.at = clock /\ e.n >= 1}

\* C17: an occurrence that passes its gate calls the delivery send exactly
\* once, whether the call returns or raises; a failed send is not repeated.
C17_SentOnce ==
    (reply.op = "fire" /\ reply.executed) => Cardinality(SendsOfRun) = 1

\* C17 for the runs whose first send returns, which the code keeps
C17_SentOnceOnSuccess ==
    (/\ reply.op = "fire"
     /\ reply.executed
     /\ \E e \in SendsOfRun : e.n = 1 /\ e.sent) => Cardinality(SendsOfRun) = 1

\* _reminder_callback has just run for a recurring record of a session and
\* its first send_message raised
FailedRecurring ==
    /\ reply.op = "fire"
    /\ reply.executed
    /\ reply.job.id[1] = "remind_"
    /\ Get(reply.job.reminder, "repeat_type") \in {"daily", "weekly", "monthly", "yearly"}
    /\ \E e \in outbox : e.job = reply.job.id /\ e.at = clock /\ e.n = 1 /\ ~e.sent

\* C18: after a fire of a recurring record whose delivery failed, the job is
\* still registered under its id with the trigger it had, and the record is
\* still in the scheduler's store and in the persisted store.
C18_FailedRecurringKept ==
    FailedRecurring =>
        /\ reply.job \in jobs
        /\ \A j \in jobs : j.id = reply.job.id => j = reply.job
        /\ Twins(ItemsOf(schedData, reply.job.origin), reply.job.reminder) # <<>>
        /\ Twins(PersistedItems(reply.job.origin), reply.job.reminder) # <<>>

\* a recurring record's delivery failed at an occurrence that is not the
\* last one of the timeline its trigger is due at
C18_Witness ==
    /\ FailedRecurring
    /\ \E t \in (clock + 1)..GateHorizon : Due(reply.job.trigger, Timeline[t])

----------------------------------------------------------------------------
(* Gated-out occurrences, checked on SpecGate *)

\* the step is a run of a gated job whose gate did not let the occurrence pass
GatedOutStep ==
    /\ reply'.op = "fire"
    /\ ~reply'.executed

\* C19: a run whose gate check fails makes no call of the delivery
\* collaborator and leaves the scheduler's store, the handlers' store, the
\* persisted store and the registered jobs as they were.
C19_GatedOutNoOp ==
    [][GatedOutStep =>
          /\ outbox' = outbox
          /\ schedData' = schedData
          /\ sysData' = sysData
          /\ jsonFile' = jsonFile
          /\ pgRows' = pgRows
          /\ jobs' = jobs]_vars

\* a gated job has just run and its gate did not let the occurrence pass
C19_Witness ==
    /\ reply.op = "fire"
    /\ ~reply.executed
    /\ reply.job \in jobs
    /\ reply.job.func \in {"_check_and_execute_workday", "_check_and_execute_holiday"}

----------------------------------------------------------------------------
(* A creation the scheduler refuses, checked on SpecIsolated *)

\* C20: when add_job returns False during add_remind, the record add_remind
\* has built is in the persisted store when the handler returns.
C20_UnscheduledPersisted ==
    (reply.op = "add_remind" /\ reply.status = "not_scheduled") =>
        Twins(PersistedItems(reply.msg_origin), reply.reminder) # <<>>

----------------------------------------------------------------------------
(* Failed saves, checked on SpecLife *)

\* the answer of the handler that has just returned reports a failure
RepliesFailure == reply.status \in {"not_saved", "not_scheduled"}

\* C21: when the save of a store mutation returns False, the handler answers
\* with a failure message: add_remind does not answer "added" and
\* remove_reminds does not answer "deleted".
C21_SaveFailureReported ==
    /\ (reply.op = "remove_reminds" /\ reply.status = "deleted" /\ ~reply.saved)
           => RepliesFailure
    /\ (reply.op = "add_remind" /\ reply.status = "added")
           => Twins(PersistedItems(reply.msg_origin), reply.reminder) # <<>>

\* C21 for add_remind alone, which the code keeps
C21_AddReportsFailure ==
    (reply.op = "add_remind" /\ reply.status = "added")
        => Twins(PersistedItems(reply.msg_origin), reply.reminder) # <<>>

----------------------------------------------------------------------------
(* SpecJobs: add_job and remove_job are called on the constructed scheduler
   with the records and the ids their callers can hand them *)

\* the record ReminderTools.set_reminder builds and hands to add_job: it has
\* the keys 'datetime' and 'repeat', not 'date_time' and 'repeat_type'
ToolRecord ==
    [text |-> <<"call">>, user_name |-> <<"u1">>, creator_id |-> <<"u1">>,
     creator_name |-> <<"Ann">>, is_task |-> FALSE,
     datetime |-> Strftime(DT(2024, 3, 4, 9, 0)), repeat |-> "none"]

\* a record without 'text'
NoTextRecord ==
    [date_time |-> Strftime(DT(2024, 3, 4, 9, 0)), repeat_type |-> "none"]

JobsRecords ==
    { Persisted(<<"meeting">>, DT(2024, 3, 4, 9, 0), "none", NoneVal),
      Persisted(<<"standup">>, DT(2024, 3, 4, 9, 0), "daily", NoneVal),
      ToolRecord, NoTextRecord }

\* the last instant of the timeline SpecJobs runs to
JobsHorizon == 2

InitJobs ==
    /\ Blank
    /\ backend = "json"
    /\ pgRows = <<>>
    /\ pgSerial = 0
    /\ all_user_reminds = <<>>
    /\ holidayApi \in HolidayApis
    /\ jsonFile \in
          { [kind |-> "missing"],
            JsonOf(<<[key |-> SessionA,
                      items |-> <<Persisted(<<"pill">>, DT(2024, 3, 4, 9, 0), "none", NoneVal)>>]>>) }

JobsAdd ==
    \E r \in JobsRecords, fault \in BOOLEAN : AddJob(SessionA, r, DT(2024, 3, 4, 9, 0), fault)

\* the ids of the registered jobs and the id remove_reminds builds
JobsRemove ==
    \E id \in {j.id : j \in jobs} \cup {RemoveJobId(SessionA, 1)} : RemoveJob(id)

JobsTick == constructed > 0 /\ clock < JobsHorizon /\ Tick

NextJobs == Startup \/ JobsAdd \/ JobsRemove \/ JobsTick

SpecJobs == InitJobs /\ [][NextJobs]_vars

\* C22: add_job returns True or False for every record it is given and
\* never raises to its caller, also for a record without 'text' or without
\* 'date_time'.
C22_AddJobNeverRaises == reply.op = "add_job" => ~reply.raised

\* C22 for the records that have both keys, which the code keeps
C22_CompleteRecordNeverRaises ==
    (/\ reply.op = "add_job"
     /\ HasKey(reply.reminder, "text")
     /\ HasKey(reply.reminder, "date_time")) => ~reply.raised

\* C23: remove_job with an id no registered job has returns False and leaves
\* the registered jobs as they were; with the id of a registered job it
\* returns True and removes that job and no other.
C23_RemoveJobSoft ==
    reply.op = "remove_job" =>
        IF \E j \in reply.held : j.id = reply.job_id
            THEN /\ reply.ok
                 /\ jobs = {j \in reply.held : j.id # reply.job_id}
                 /\ Cardinality(reply.held \ jobs) = 1
        ELSE /\ ~reply.ok
             /\ jobs = reply.held

\* remove_job has just been called with an id no job has while other jobs
\* are registered
C23_Witness ==
    /\ reply.op = "remove_job"
    /\ ~reply.ok
    /\ reply.held # {}

\* remove_job has just removed one of two registered jobs
C23_RemovedOneOfTwo ==
    /\ reply.op = "remove_job"
    /\ reply.ok
    /\ Cardinality(reply.held) = 2

----------------------------------------------------------------------------
(* SpecCalendar: is_holiday and is_workday are asked about a date on a
   holiday table with boolean entries *)

\* Monday, Tuesday, Saturday and Sunday of one week, and a Thursday
CalendarDates ==
    { DT(2024, 3, 4, 9, 0), DT(2024, 3, 5, 9, 0), DT(2024, 3, 9, 9, 0),
      DT(2024, 3, 10, 9, 0), DT(2024, 4, 4, 9, 0) }

CalendarKeys == {"03-04", "03-05", "03-09"}

\* every table with boolean entries over the keys
CalendarTables == UNION {[k -> BOOLEAN] : k \in SUBSET CalendarKeys}

InitCalendar ==
    /\ Blank
    /\ backend = "json"
    /\ pgRows = <<>>
    /\ pgSerial = 0
    /\ all_user_reminds = <<>>
    /\ holidayApi \in HolidayApis
    /\ jsonFile = [kind |-> "missing"]

\* is_holiday(date) and is_workday(date) with fetch_holiday_data returning
\* table; value: the two answers
CalendarAsk ==
    /\ \E date \in CalendarDates, table \in CalendarTables :
           reply' = [op |-> "calendar",
                     value |-> <<is_holiday(table, date), is_workday(table, date)>>,
                     dt |-> date, table |-> table]
    /\ UNCHANGED <<clock, backend, jsonFile, jsonBak, pgRows, pgSerial, sysData, schedData,
                   jobs, constructed, startedAt, registry, all_user_reminds, unique_session, handlers,
                   holidayFile, holidayApi, holiday_data, fired, outbox>>

NextCalendar == CalendarAsk

SpecCalendar == InitCalendar /\ [][NextCalendar]_vars

\* C24: a date whose MM-DD is in the table with true is a holiday and no
\* workday; one in the table with false is a workday and no holiday, also on
\* a Saturday or Sunday; a date not in the table is a workday exactly from
\* Monday to Friday and a holiday exactly on Saturday and Sunday.  So
\* is_workday is the negation of is_holiday.
C24_TableDecides ==
    reply.op = "calendar" =>
        LET key     == ShortDate(reply.dt)
            holiday == reply.value[1]
            workday == reply.value[2]
            weekend == reply.dt \in {DT(2024, 3, 9, 9, 0), DT(2024, 3, 10, 9, 0)}
        IN  /\ (key \in DOMAIN reply.table /\ reply.table[key]) => (holiday /\ ~workday)
            /\ (key \in DOMAIN reply.table /\ ~reply.table[key]) => (workday /\ ~holiday)
            /\ key \notin DOMAIN reply.table => (workday = ~weekend /\ holiday = weekend)
            /\ workday = ~holiday

\* a Saturday the table lists with false has just been asked about
C24_Witness ==
    /\ reply.op = "calendar"
    /\ reply.dt = DT(2024, 3, 9, 9, 0)
    /\ "03-09" \in DOMAIN reply.table
    /\ ~reply.table["03-09"]
    /\ reply.value = <<FALSE, TRUE>>

----------------------------------------------------------------------------
(* The age of the holiday cache, checked on SpecGate *)

\* (now - last_update).days of a cache that carries last_update
CacheAge(hd) == (Stamp(Now) - Stamp(hd["last_update"])) \div (24 * 60)

\* a gated job has just asked for the table of the current year, and the
\* cache it leaves holds that year with a last_update more than 30 days old
AskedOnStaleCache ==
    /\ reply.op = "fire"
    /\ reply.job.func \in {"_check_and_execute_workday", "_check_and_execute_holiday"}
    /\ ToString(Now.year) \in DOMAIN holiday_data
    /\ "last_update" \in DOMAIN holiday_data
    /\ CacheAge(holiday_data) > StaleDays

\* C25: a calendar query for a year whose cached table is more than 30 days
\* old calls the external source again, in a running process as after a
\* restart: a query never answers from a cache that old without a call.
C25_StaleRefetched == AskedOnStaleCache => reply.fetched

\* a gated job has just run and its request to the calendar source failed
FetchFailed ==
    /\ reply.op = "fire"
    /\ reply.job.func \in {"_check_and_execute_workday", "_check_and_execute_holiday"}
    /\ reply.fetched
    /\ reply.table = NoTable

\* C26: after a failed fetch the table is empty and the failure is not
\* cached: the year is still missing from the cache, so the next query
\* fetches again, and the gate has decided by the day of the week alone.
C26_FailureNotCached ==
    FetchFailed =>
        /\ ToString(Now.year) \notin DOMAIN holiday_data
        /\ reply.executed =
              IF reply.job.func = "_check_and_execute_workday" THEN Weekday(Now) < 5
              ELSE Weekday(Now) >= 5

\* the fetch failed on Monday 2024-03-04, a legal holiday: the workday gate
\* let the occurrence pass
C26_Witness ==
    /\ FetchFailed
    /\ Now = DT(2024, 3, 4, 9, 0)
    /\ reply.job.func = "_check_and_execute_workday"
    /\ reply.executed

----------------------------------------------------------------------------
(* SpecRestart: the plugin is constructed again in a running process *)

\* the constructions of one process
MaxRestarts == 2

\* the last instant of the timeline SpecRestart runs to
RestartHorizon == 2

\* the record a tool registers a job for without the store of the scheduler
\* holding it
RestartCall == Persisted(<<"call">>, DT(2024, 3, 5, 9, 0), "none", NoneVal)

InitRestart ==
    /\ Blank
    /\ backend = "json"
    /\ pgRows = <<>>
    /\ pgSerial = 0
    /\ all_user_reminds \in {<<>>, <<GlobalCfg>>}
    /\ holidayApi = [y \in {2024} |-> [d \in {"03-04"} |-> TRUE]]
    /\ jsonFile \in
          { [kind |-> "missing"],
            JsonOf(<<[key |-> SessionA,
                      items |-> <<Persisted(<<"pill">>, DT(2024, 3, 4, 9, 0), "none", NoneVal)>>]>>) }

RestartConstruct == constructed < MaxRestarts /\ Construct

RestartAdd ==
    /\ TotalLen(sysData) < MaxRecords
    /\ AddRemind(EventA, <<"meeting">>, NineOClock, NoneVal, "weekly", NoneVal, FALSE, FALSE, TRUE)
    /\ UNCHANGED handlers

RestartAddJob == AddJob(SessionA, RestartCall, DT(2024, 3, 5, 9, 0), FALSE)

RestartRemove ==
    /\ RemoveReminds(EventA, 1, TRUE)
    /\ UNCHANGED handlers

RestartTick == constructed > 0 /\ clock < RestartHorizon /\ Tick

NextRestart == RestartConstruct \/ RestartAdd \/ RestartAddJob \/ RestartRemove \/ RestartTick

SpecRestart == InitRestart /\ [][NextRestart]_vars

\* C27: when a construction completes, whatever constructions came before
\* it in the process, the registry holds the one AsyncIOScheduler created by
\* the first of them, and the jobs of that scheduler are those
\* _init_scheduler compiles from the configuration and the store just
\* loaded, one per id: no job of an earlier construction is left.
C27_OneSchedulerFreshJobs ==
    (reply.op = "startup" /\ ~reply.raised) =>
        /\ registry = 1
        /\ jobs = init_scheduler({}, all_user_reminds, schedData, Now).jobs
        /\ \A j \in jobs : \A k \in jobs : j.id = k.id => j = k

\* the second construction has completed and has registered jobs
C27_Witness ==
    /\ reply.op = "startup"
    /\ ~reply.raised
    /\ constructed = 2
    /\ jobs # {}

----------------------------------------------------------------------------
(* SpecLoad: the store is loaded from a file or a database in any condition *)

\* the last instant of the timeline SpecLoad runs to
LoadHorizon == 3

LoadStored ==
    <<[key |-> SessionA,
       items |-> <<Persisted(<<"pill">>, DT(2024, 3, 4, 9, 0), "none", NoneVal)>>]>>

\* a file that holds a store, no file, a truncated file, a file that holds a
\* JSON list, a file the process may not read
LoadFiles ==
    { JsonOf(LoadStored),
      [kind |-> "missing"],
      [kind |-> "garbage", data |-> <<>>],
      [kind |-> "nondict", data |-> <<>>],
      [kind |-> "unreadable", data |-> JsonDumps(LoadStored)] }

InitLoad ==
    /\ Blank
    /\ backend \in {"json", "postgres"}
    /\ jsonFile \in LoadFiles
    /\ pgRows \in {<<>>, PgSave(<<>>, 0, LoadStored, TRUE).rows}
    /\ pgSerial = Len(pgRows)
    /\ all_user_reminds = <<>>
    /\ holidayApi = [y \in {2024} |-> [d \in {"03-04"} |-> TRUE]]

\* ReminderSystem.__init__: self.reminder_data = load_reminder_data(...)
LoadSync ==
    \E db \in BOOLEAN :
        LET ld == load_reminder_data(backend, jsonFile, jsonBak, pgRows, db)
        IN  /\ sysData' = IF ld.raised THEN sysData ELSE ld.data
            /\ jsonFile' = ld.file
            /\ jsonBak' = ld.bak
            /\ reply' = [op |-> "load_sync", raised |-> ld.raised, fault |-> ~db,
                         data |-> ld.data, file |-> jsonFile]
            /\ UNCHANGED <<clock, backend, pgRows, pgSerial, schedData, jobs, constructed,
                           startedAt, registry, all_user_reminds, unique_session, handlers,
                           holidayFile, holidayApi, holiday_data, fired, outbox>>

\* the handlers: self.reminder_data = await async_load_reminder_data(...)
LoadAsync ==
    \E db \in BOOLEAN :
        LET ld == LoadStore(backend, jsonFile, jsonBak, pgRows, db)
        IN  /\ sysData' = ld.data
            /\ jsonFile' = ld.file
            /\ jsonBak' = ld.bak
            /\ reply' = [op |-> "load_async", raised |-> FALSE, fault |-> ~db,
                         data |-> ld.data, file |-> jsonFile]
            /\ UNCHANGED <<clock, backend, pgRows, pgSerial, schedData, jobs, constructed,
                           startedAt, registry, all_user_reminds, unique_session, handlers,
                           holidayFile, holidayApi, holiday_data, fired, outbox>>

\* the store held in memory is saved
LoadSave ==
    LET sv == async_save_reminder_data(backend, jsonFile, pgRows, pgSerial, sysData, Now, TRUE)
    IN  /\ jsonFile' = sv.file
        /\ pgRows' = sv.rows
        /\ pgSerial' = sv.serial
        /\ reply' = [op |-> "save", ok |-> sv.ok]
        /\ UNCHANGED <<clock, backend, jsonBak, sysData, schedData, jobs, constructed,
                       startedAt, registry, all_user_reminds, unique_session, handlers,
                       holidayFile, holidayApi, holiday_data, fired, outbox>>

LoadTick == clock < LoadHorizon /\ Tick

NextLoad == LoadSync \/ LoadAsync \/ LoadSave \/ LoadTick

SpecLoad == InitLoad /\ [][NextLoad]_vars

\* the store the load found cannot be used: the file does not parse, holds
\* no object or cannot be read, or the database does not answer
Unusable ==
    IF backend = "postgres" THEN reply.fault
    ELSE reply.file.kind \in {"garbage", "nondict", "unreadable"}

\* C28: a load raises nothing on either backend; on a store that cannot be
\* used it returns the empty store, and the content of a flat file that
\* cannot be used is afterwards found in the backup.
C28_LoadTolerates ==
    reply.op \in {"load_sync", "load_async"} =>
        /\ ~reply.raised
        /\ Unusable => reply.data = EmptyDict
        /\ (Unusable /\ backend = "json") => jsonBak = reply.file

\* what holds of C28 on the flat file: no load raises, a store that cannot
\* be used loads as the empty store, and a file json.loads raises on is
\* found in the backup
C28_UndecodableBackedUp ==
    (reply.op \in {"load_sync", "load_async"} /\ backend = "json") =>
        /\ ~reply.raised
        /\ Unusable => reply.data = EmptyDict
        /\ reply.file.kind = "garbage" => jsonBak = reply.file

----------------------------------------------------------------------------
(* SpecValidate: add_remind is called with arguments of every kind *)

\* the last instant of the timeline SpecValidate runs to
ValidateHorizon == 2

\* "9:00", "25:00" and a str no branch of parse_datetime recognises
ValidateTimes ==
    { NineOClock,
      [fmt |-> "regex", am_pm |-> NoneVal, hour |-> 25, minute |-> 0],
      [fmt |-> "nomatch"] }

ValidateWeeks == {NoneVal, "monday", "daily"}

ValidateRepeats == {NoneVal, "hourly", "workday"}

ValidateGates == {NoneVal, "weekend"}

InitValidate ==
    /\ Blank
    /\ backend = "json"
    /\ pgRows = <<>>
    /\ pgSerial = 0
    /\ all_user_reminds = <<>>
    /\ holidayApi = [y \in {2024} |-> [d \in {"03-04"} |-> TRUE]]
    /\ jsonFile \in
          { [kind |-> "missing"],
            JsonOf(<<[key |-> SessionA,
                      items |-> <<Persisted(<<"pill">>, DT(2024, 3, 4, 9, 0), "none", NoneVal)>>]>>) }

ValidateAdd ==
    \E tin \in ValidateTimes, week \in ValidateWeeks, rt \in ValidateRepeats, ht \in ValidateGates :
        /\ TotalLen(sysData) < MaxRecords
        /\ AddRemind(EventA, <<"meeting">>, tin, week, rt, ht, FALSE, FALSE, TRUE)
        /\ UNCHANGED handlers

ValidateTick == constructed > 0 /\ clock < ValidateHorizon /\ Tick

NextValidate == Startup \/ ValidateAdd \/ ValidateTick

SpecValidate == InitValidate /\ [][NextValidate]_vars

\* the arguments of an add_remind name a time that cannot be read, a weekday
\* that is none of mon .. sun, a repeat type or a holiday type that is none
\* of the values add_remind lists
InvalidAdd(in) ==
    \/ ~HourMinute(in[1]).ok
    \/ ~(HourMinute(in[1]).hour \in 0..23 /\ HourMinute(in[1]).minute \in 0..59)
    \/ Truthy(in[2]) /\ in[2] \notin AddWeekMap
    \/ Truthy(in[3]) /\ in[3] \notin RepeatNames
    \/ Truthy(in[4]) /\ in[4] \notin HolidayNames

Rejections == {"bad_time", "bad_week", "bad_repeat", "bad_holiday"}

\* C29: an add_remind called with a malformed time, an invalid weekday, an
\* invalid repeat type or an invalid holiday type answers with a validation
\* message, and the step leaves the store of the handlers, the persisted
\* store and the jobs of the scheduler as they were.
C29_InvalidRejected ==
    [][(reply'.op = "add_remind" /\ InvalidAdd(reply'.input)) =>
            /\ reply'.status \in Rejections
            /\ sysData' = sysData
            /\ jsonFile' = jsonFile
            /\ pgRows' = pgRows
            /\ jobs' = jobs]_vars

\* an add_remind with a weekday that is none of mon .. sun has been
\* answered with a validation message while the store held a record
C29_Witness ==
    /\ reply.op = "add_remind"
    /\ reply.status \in Rejections
    /\ Truthy(reply.input[2])
    /\ reply.input[2] \notin AddWeekMap
    /\ TotalLen(sysData) > 0

----------------------------------------------------------------------------
(* SpecNumbers: reminders and tasks are listed and deleted by number *)

\* the last instant of the timeline SpecNumbers runs to
NumbersHorizon == 2

\* a reminder and a task of the session
NumbersPool ==
    { Persisted(<<"pill">>, DT(2024, 3, 5, 9, 0), "none", NoneVal),
      [Persisted(<<"water">>, DT(2024, 3, 5, 9, 0), "daily", NoneVal) EXCEPT !.is_task = TRUE] }

\* the lists of at most MaxRecords records, each record once
NumbersLists ==
    {q \in UNION {[1..n -> NumbersPool] : n \in 1..MaxRecords} :
        \A i \in DOMAIN q : \A j \in DOMAIN q : q[i] = q[j] => i = j}

InitNumbers ==
    /\ Blank
    /\ backend = "json"
    /\ pgRows = <<>>
    /\ pgSerial = 0
    /\ all_user_reminds = <<>>
    /\ holidayApi = [y \in {2024} |-> [d \in {"03-04"} |-> TRUE]]
    /\ jsonFile \in {JsonOf(<<[key |-> SessionA, items |-> q]>>) : q \in NumbersLists}

NumbersAdd ==
    \E is_task \in BOOLEAN :
        /\ TotalLen(sysData) < MaxRecords
        /\ AddRemind(EventA, <<"meeting">>, NineOClock, NoneVal, "weekly", NoneVal, is_task, FALSE, TRUE)
        /\ UNCHANGED handlers

NumbersList == ListReminds(EventA)

NumbersRemove ==
    /\ \E index \in 1..MaxRecords : RemoveReminds(EventA, index, TRUE)
    /\ UNCHANGED handlers

NumbersTick == constructed > 0 /\ clock < NumbersHorizon /\ Tick

NextNumbers == Startup \/ NumbersAdd \/ NumbersList \/ NumbersRemove \/ NumbersTick

SpecNumbers == InitNumbers /\ [][NextNumbers]_vars

\* C30: the record remove_reminds(index) removes is the record the list
\* shows under the number index, where the list numbers the reminders of
\* the session first and its tasks after them.
C30_RemovesListed ==
    (reply.op = "remove_reminds" /\ reply.status = "deleted") =>
        reply.removed = NumberedList(reply.reminds)[reply.n]

\* what holds of C30: the record removed is the record at index in the
\* order the store holds the session's records in, which is the order of the
\* list when no task is stored before a reminder
C30_RemovesStored ==
    (reply.op = "remove_reminds" /\ reply.status = "deleted") =>
        /\ reply.removed = reply.reminds[reply.n]
        /\ reply.reminds = NumberedList(reply.reminds) =>
               reply.removed = NumberedList(reply.reminds)[reply.n]

----------------------------------------------------------------------------
(* the arguments of add_remind, on SpecValidate *)

\* the arguments name a time parse_datetime reads, a repeat type where the
\* weekday is expected and nothing or a holiday type where the repeat type
\* is expected
RepeatAsWeek(in) ==
    /\ HourMinute(in[1]).ok
    /\ HourMinute(in[1]).hour \in 0..23
    /\ HourMinute(in[1]).minute \in 0..59
    /\ in[2] \in {"daily", "weekly", "monthly", "yearly"}
    /\ in[3] \in {NoneVal, "workday", "holiday"}
    /\ in[4] = NoneVal

\* C31: an add_remind called with a time it can read and a repeat type in
\* the position of the weekday, with or without a holiday type after it,
\* stores and schedules a record of that repeat type and holiday type.
C31_RepeatAsWeekAccepted ==
    (reply.op = "add_remind" /\ RepeatAsWeek(reply.input)) =>
        /\ reply.status = "added"
        /\ reply.reminder.repeat_type = reply.input[2]
        /\ reply.reminder.holiday_type = reply.input[3]
        /\ \E j \in jobs : j.id = reply.job_id

\* what add_remind does with a repeat type in the position of the weekday:
\* parse_datetime raises on it and the ValueError text is the reply
C31_RepeatAsWeekRejected ==
    (reply.op = "add_remind" /\ RepeatAsWeek(reply.input)) => reply.status = "bad_time"

----------------------------------------------------------------------------
(* the keys get_session_id builds, on SpecKeys *)

\* the key is of a group, a chat room or a channel
GroupShaped(key) ==
    \/ Contains(key, <<":", "GroupMessage", ":">>)
    \/ Contains(key, <<"@chatroom">>)
    \/ Contains(key, <<":", "ChannelMessage", ":">>)

\* key with "_" and creator_id appended to its last colon-delimited segment
LastSegmentTagged(key, creator_id) ==
    LET i == Max(Positions(key, ":"))
    IN  SubSeq(key, 1, i) \o (SubSeq(key, i + 1, Len(key)) \o <<"_">> \o creator_id)

\* C32: without isolation get_session_id returns the raw key; with
\* isolation and a creator id it returns the raw key with "_" and the
\* creator id appended to the last colon-delimited segment when the key is of
\* a group, a chat room or a channel, and to the whole key otherwise.
C32_SessionIdShape ==
    reply.op = "get_session_id" =>
        IF ~unique_session THEN reply.session_id = reply.msg_origin
        ELSE TruthySeq(reply.creator_id) =>
                 IF GroupShaped(reply.msg_origin)
                     THEN reply.session_id = LastSegmentTagged(reply.msg_origin, reply.creator_id)
                 ELSE reply.session_id = reply.msg_origin \o <<"_">> \o reply.creator_id

\* with isolation, the key of a group has been isolated for a creator
C32_Witness ==
    /\ reply.op = "get_session_id"
    /\ unique_session
    /\ TruthySeq(reply.creator_id)
    /\ GroupShaped(reply.msg_origin)
    /\ reply.session_id # reply.msg_origin

----------------------------------------------------------------------------
(* SpecParse: parse_datetime on every time input at every instant *)

\* the seconds of datetime.now(): on the full minute and inside it
ParseSeconds == {0, 30}

\* "820", "2500", "9:00", "24:00", "下午3点", "9:75", a full date-time, a
\* str no branch recognises
ParseTimes ==
    { [fmt |-> "digits", hour |-> 8, minute |-> 20],
      [fmt |-> "digits", hour |-> 25, minute |-> 0],
      NineOClock,
      [fmt |-> "regex", am_pm |-> NoneVal, hour |-> 24, minute |-> 0],
      [fmt |-> "regex", am_pm |-> "afternoon", hour |-> 3, minute |-> 0],
      [fmt |-> "regex", am_pm |-> NoneVal, hour |-> 9, minute |-> 75],
      [fmt |-> "full", s |-> Strftime(DT(2025, 10, 1, 8, 20))],
      [fmt |-> "nomatch"] }

ParseWeeks == {NoneVal, "mon", "tuesday", "sat", "sun"}

InitParse ==
    /\ Blank
    /\ backend = "json"
    /\ jsonFile = [kind |-> "missing"]
    /\ pgRows = <<>>
    /\ pgSerial = 0
    /\ all_user_reminds = <<>>
    /\ holidayApi = [y \in {2024} |-> [d \in {"03-04"} |-> TRUE]]

\* parse_datetime(datetime_str, week) called when datetime.now() is Now and
\* second seconds.  dt has second 0, so dt <= today compares the minutes.
ParseAsk ==
    \E tin \in ParseTimes, week \in ParseWeeks, second \in ParseSeconds :
        LET p == parse_datetime(tin, week, Now)
        IN  /\ reply' = [op |-> "parse_datetime", ok |-> p.ok,
                         value |-> IF p.ok THEN p.value ELSE NoneSeq,
                         n |-> second, input |-> <<tin, week>>]
            /\ UNCHANGED <<clock, backend, jsonFile, jsonBak, pgRows, pgSerial, sysData,
                           schedData, jobs, constructed, startedAt, registry, all_user_reminds,
                           unique_session, handlers, holidayFile, holidayApi, holiday_data,
                           fired, outbox>>

NextParse == ParseAsk \/ Tick

SpecParse == InitParse /\ [][NextParse]_vars

\* the seconds from now to the date-time parse_datetime returned
SecondsAhead == (Stamp(Strptime(reply.value).dt) - Stamp(Now)) * 60 - reply.n

\* the hour and minute the time input names are a time of the day
TimeOfDay(in) ==
    /\ HourMinute(in).ok
    /\ HourMinute(in).hour \in 0..23
    /\ HourMinute(in).minute \in 0..59

\* what C33 states of parse_datetime but for the distance without a weekday
ParsedAhead ==
    /\ TimeOfDay(reply.input[1]) \/ ~reply.ok
    /\ reply.ok =>
        /\ SecondsAhead > 0
        /\ Strptime(reply.value).dt.hour = HourMinute(reply.input[1]).hour
        /\ Strptime(reply.value).dt.minute = HourMinute(reply.input[1]).minute
        /\ Truthy(reply.input[2]) =>
               /\ Weekday(Strptime(reply.value).dt) = ParseWeekMap[reply.input[2]]
               /\ SecondsAhead <= 7 * 86400

\* C33 as stated: the date-time parse_datetime returns is later than now
\* and has the hour and minute of the input; with a weekday it falls on that
\* weekday at most 7 days ahead, without one it is less than 24 hours
\* ahead; an hour outside 0..23 or a minute outside 0..59 is rejected.
C33_ParsedFuture ==
    reply.op = "parse_datetime" =>
        /\ ParsedAhead
        /\ (reply.ok /\ ~Truthy(reply.input[2])) => SecondsAhead < 86400

\* C33, amended: the same, but without a weekday the date-time is at most
\* 24 hours ahead, and 24 hours ahead only when now is the first instant of
\* the minute the input names.
C33_ParsedFutureWithinDay ==
    reply.op = "parse_datetime" =>
        /\ ParsedAhead
        /\ (reply.ok /\ ~Truthy(reply.input[2])) =>
               /\ SecondsAhead <= 86400
               /\ SecondsAhead = 86400 =>
                      /\ reply.n = 0
                      /\ Now.hour = HourMinute(reply.input[1]).hour
                      /\ Now.minute = HourMinute(reply.input[1]).minute

\* parse_datetime was asked for 9:00 at 09:00:00 and for a weekday
C33_Witness ==
    /\ reply.op = "parse_datetime"
    /\ reply.ok
    /\ reply.n = 0
    /\ \/ ~Truthy(reply.input[2]) /\ SecondsAhead = 86400
       \/ Truthy(reply.input[2]) /\ SecondsAhead = 7 * 86400

----------------------------------------------------------------------------
(* the jobs and the persisted store, on SpecLife *)

\* the store as a load would return it
PersistedStore ==
    IF backend = "postgres" THEN PgLoad(pgRows, TRUE)
    ELSE IF jsonFile.kind = "dict" THEN JsonLoads(jsonFile.data)
    ELSE EmptyDict

\* no job of a one-shot record is at or past its instant, waiting to run
NoneDue == \A j \in jobs : j.trigger.kind = "date" => Stamp(j.trigger.run_date) > Stamp(Now)

\* C34: between the operations, the ids of the jobs of session reminders are
\* the job ids of the persisted records that are recurring or one-shot in
\* the future: no job without such a record and no such record without a job.
C34_JobsMatchStore ==
    (constructed > 0 /\ NoneDue) =>
        {j.id : j \in {k \in jobs : k.id[1] = "remind_"}} = OwedIds(PersistedStore)

\* the persisted records a save at the instant today may prune: the one-shot
\* records of the past
Prunable(e, today) == Get(e.rec, "repeat_type") = "none" /\ is_outdated(e.rec, today)

\* C35: the run of _reminder_callback changes the persisted store at most by
\* removing the record of its job and the one-shot records of the past a
\* save prunes: every other persisted record, those add_remind has added
\* among them, is still persisted, and no record that was not persisted,
\* those remove_reminds has removed among them, is persisted afterwards.
C35_FireKeepsOthers ==
    [][reply'.op = "fire" =>
            /\ \A e \in AllRecords(PersistedStore) :
                   (e.rec # reply'.job.reminder /\ ~Prunable(e, Now))
                       => e \in AllRecords(PersistedStore')
            /\ AllRecords(PersistedStore') \subseteq AllRecords(PersistedStore)]_vars

----------------------------------------------------------------------------
(* SpecCallers: with session isolation, two users create, list and delete
   records in two sessions *)

\* Ann, whose id is "1", in the group and in her private chat; Bob, whose id
\* is "u_1", in the group
CallerAnn == [origin |-> SessionA, user |-> <<"1">>, name |-> <<"Ann">>]

CallerAnnB == [origin |-> SessionB, user |-> <<"1">>, name |-> <<"Ann">>]

CallerBob == [origin |-> SessionA, user |-> <<"u", "_", "1">>, name |-> <<"Bob">>]

Callers == {CallerAnn, CallerAnnB, CallerBob}

InitCallers ==
    /\ clock = 1
    /\ backend = "json"
    /\ jsonFile = [kind |-> "missing"]
    /\ jsonBak = [kind |-> "missing"]
    /\ pgRows = <<>>
    /\ pgSerial = 0
    /\ sysData = EmptyDict
    /\ schedData = EmptyDict
    /\ jobs = {}
    /\ constructed = 0
    /\ startedAt = 0
    /\ registry = 0
    /\ all_user_reminds = <<>>
    /\ unique_session = TRUE
    /\ holidayFile = NoFile
    /\ holidayApi = [y \in {2024} |-> [d \in {"03-04"} |-> TRUE]]
    /\ holiday_data = <<>>
    /\ fired = {}
    /\ outbox = {}
    /\ reply = [op |-> "none"]
    /\ handlers = NoHandlers

CallersAdd ==
    \E ev \in Callers :
        /\ TotalLen(sysData) < MaxRecords
        /\ AddRemind(ev, <<"meeting">>, NineOClock, NoneVal, "none", NoneVal, FALSE, FALSE, TRUE)
        /\ UNCHANGED handlers

CallersList == \E ev \in Callers : ListReminds(ev)

CallersRemove ==
    /\ \E ev \in Callers, index \in 1..MaxRecords : RemoveReminds(ev, index, TRUE)
    /\ UNCHANGED handlers

NextCallers == Startup \/ CallersAdd \/ CallersList \/ CallersRemove

SpecCallers == InitCallers /\ [][NextCallers]_vars

\* C36: a remove_reminds that answers "deleted" has removed one record: the
\* persisted store holds one record less than before.
C36_RemovesOne ==
    [][(reply'.op = "remove_reminds" /\ reply'.status = "deleted") =>
            TotalLen(PersistedStore') = TotalLen(PersistedStore) - 1]_vars

\* what holds of C36: a remove_reminds that answers "deleted" removes the
\* record at index, and with it at most one record of the same text and
\* date_time under each other key of the caller
C36_RemovesOnePerKey ==
    [][(reply'.op = "remove_reminds" /\ reply'.status = "deleted") =>
            /\ TotalLen(PersistedStore') < TotalLen(PersistedStore)
            /\ \A e \in AllRecords(PersistedStore) \ AllRecords(PersistedStore') :
                   /\ e.rec.text = reply'.removed.text
                   /\ e.rec.date_time = reply'.removed.date_time]_vars

\* the key is the key of the caller in the session of the call, or a key
\* get_session_id makes for the caller in another session
KeyOfCaller(key, origin, user) ==
    \/ key = get_session_id(unique_session, origin, user)
    \/ \E ev \in Callers : key = get_session_id(TRUE, ev.origin, user)

\* C39: the records list_reminds returns to a caller are stored under keys
\* of the caller, and the records a remove_reminds of the caller removes
\* from the persisted store were stored under keys of the caller: a record
\* another user created under another key is neither listed nor removed.
C39_OwnRecordsOnly ==
    [][/\ reply'.op = "list_reminds" =>
              \A i \in DOMAIN reply'.reminds :
                  \E e \in AllRecords(sysData') :
                      /\ e.rec = reply'.reminds[i]
                      /\ KeyOfCaller(e.key, reply'.origin, reply'.user)
       /\ (reply'.op = "remove_reminds" /\ reply'.status = "deleted") =>
              \A e \in AllRecords(PersistedStore) \ AllRecords(PersistedStore') :
                  KeyOfCaller(e.key, reply'.origin, reply'.user)]_vars

\* what holds of C39: the records listed and removed are stored under the
\* key of the call or under a key that ends with "_" and the caller's id
C39_SuffixKeysOnly ==
    [][/\ reply'.op = "list_reminds" =>
              \A i \in DOMAIN reply'.reminds :
                  \E e \in AllRecords(sysData') :
                      /\ e.rec = reply'.reminds[i]
                      /\ IsCallersKey(e.key, get_session_id(unique_session, reply'.origin,
                                                            reply'.user), reply'.user)
       /\ (reply'.op = "remove_reminds" /\ reply'.status = "deleted") =>
              \A e \in AllRecords(PersistedStore) \ AllRecords(PersistedStore') :
                  IsCallersKey(e.key, reply'.msg_origin, reply'.user)]_vars

----------------------------------------------------------------------------
(* SpecOutage: a load of list_reminds fails while the store holds a record *)

OutageStored ==
    <<[key |-> SessionA,
       items |-> <<Persisted(<<"pill">>, DT(2024, 3, 4, 9, 0), "daily", NoneVal)>>]>>

InitOutage ==
    /\ Blank
    /\ backend \in {"json", "postgres"}
    /\ jsonFile = IF backend = "json" THEN JsonOf(OutageStored) ELSE [kind |-> "missing"]
    /\ pgRows = IF backend = "postgres" THEN PgSave(<<>>, 0, OutageStored, TRUE).rows ELSE <<>>
    /\ pgSerial = Len(pgRows)
    /\ all_user_reminds = <<>>
    /\ holidayApi \in HolidayApis

\* list_reminds(event) when its load fails: open() raises on the flat file,
\* or the database does not answer
ListFailedLoad(ev) ==
    LET msg_origin == get_session_id(unique_session, ev.origin, ev.user)
        ld == IF backend = "postgres" THEN LoadStore(backend, jsonFile, jsonBak, pgRows, FALSE)
              ELSE load_json_data([kind |-> "unreadable", data |-> <<>>], jsonBak)
    IN  /\ constructed > 0
        /\ sysData' = ld.data
        /\ reply' = [op |-> "list_reminds", fault |-> TRUE, origin |-> ev.origin, user |-> ev.user,
                     reminds |-> CallersReminds(ld.data, msg_origin, ev.user)]
        /\ UNCHANGED <<clock, backend, jsonFile, jsonBak, pgRows, pgSerial, schedData, jobs,
                       constructed, startedAt, registry, all_user_reminds, unique_session,
                       handlers, holidayFile, holidayApi, holiday_data, fired, outbox>>

OutageList == ListFailedLoad(EventA)

NextOutage == Startup \/ LifeAdd \/ LifeList \/ OutageList \/ LifeTick

SpecOutage == InitOutage /\ [][NextOutage]_vars

\* the texts of the records of the store d, each with its key
TextsOf(d) == {<<e.key, e.rec.text>> : e \in AllRecords(d)}

\* C37: no record is removed or fired in SpecOutage and the record the store
\* holds at first is recurring; so, whatever loads failed before, when an
\* add_remind has saved, the record persisted at first is still persisted.
C37_OutageLosesNothing ==
    (reply.op = "add_remind" /\ reply.status = "added") =>
        TextsOf(OutageStored) \subseteq TextsOf(PersistedStore)

(***************************************************************************)
(* Job ids of records whose keys and texts hold underscores                *)
(***************************************************************************)

\* two members of the group of SessionA; the id of the second is the id of the
\* first, an underscore and a digit
CallerU == [origin |-> SessionA, user |-> <<"u">>, name |-> <<"Uma">>]

CallerU1 == [origin |-> SessionA, user |-> <<"u", "_", "1">>, name |-> <<"Bob">>]

IdsCallers == {CallerU, CallerU1}

IdsTexts == {<<"pill">>, <<"1", "_", "pill">>}

IdsAdd ==
    \E ev \in IdsCallers, text \in IdsTexts, tin \in {NineOClock, EightOClock} :
        /\ TotalLen(sysData) < MaxRecords
        /\ AddRemind(ev, text, tin, NoneVal, "none", NoneVal, FALSE, FALSE, TRUE)
        /\ UNCHANGED handlers

NextIds == Startup \/ IdsAdd \/ LifeTick

SpecIds == InitCallers /\ [][NextIds]_vars

\* the characters of the key, the text and the date_time of an entry
Triple(e) == <<Flat(e.key), Flat(e.rec.text), e.rec.date_time>>

\* C38: two records of the store whose session key, text or date_time differ
\* have different job ids.
C38_DistinctJobIds ==
    \A e, f \in AllRecords(sysData) :
        Triple(e) # Triple(f) => JobId(e.key, e.rec) # JobId(f.key, f.rec)

\* what holds of C38: two records of one session key whose text or date_time
\* differ have different job ids
C38_DistinctJobIdsPerKey ==
    \A e, f \in AllRecords(sysData) :
        (e.key = f.key /\ Triple(e) # Triple(f)) => JobId(e.key, e.rec) # JobId(f.key, f.rec)

=============================================================================
